---- MODULE Spec2Model ----
(***************************************************************************)
(* Model of the parallel-execution coordination core of runebook           *)
(* (src-tauri/src/core, src-tauri/src/orchestrator):                       *)
(*   - the coordination channel (an unbounded mpsc queue of messages),     *)
(*   - the ownership manager and the API registry,                         *)
(*   - the ExecutionCoordinator, whose process_coordination loop takes     *)
(*     one message per iteration off the channel and dispatches it.        *)
(* Senders hold clones of the CoordinationHandle and may enqueue between   *)
(* any two iterations of the loop, so one loop iteration is one step.      *)
(***************************************************************************)
EXTENDS Integers, Sequences, FiniteSets, TLC

VARIABLES
    plan,          \* ExecutionCoordinator.plan (tasks, file_ownership)
    ownership,     \* ExecutionCoordinator.ownership.ownership_map
    api_registry,  \* ExecutionCoordinator.api_registry.apis
    agent_status,  \* ExecutionCoordinator.agent_status
    queue,         \* the mpsc channel behind CoordinationChannel.receiver
    pc,            \* "idle", or "draining" inside process_coordination
    result,        \* what the last process_coordination call returned
    delivered,     \* history: the messages the coordinator has dispatched
    receiver_alive,\* the channel's UnboundedReceiver has not been dropped
    rpc,           \* ParallelExecutionRunner::execute: where the runner is
    worker_pc,     \* per worker: where its initialize-then-execute call is
    own_status,    \* per worker: the status field of the AgentN struct
    agent_lock,    \* per worker: its Arc<Mutex<AgentN>> is held
    run_result,    \* what ParallelExecutionRunner::execute returned
    runner_log,    \* history: the phases launched and the drains called
    clock,         \* what chrono::Utc::now() reads
    plans,         \* the ExecutionPlan values create_execution_plan returned
    store,         \* the value the store holds under SCHEMA_VERSION_KEY
    migration_result, \* what the last run_migrations call returned
    migration_status  \* what the last get_migration_status call returned

runner_vars == <<rpc, worker_pc, own_status, agent_lock, run_result, runner_log>>

\* the planner's clock and the memory store take no part in coordination
standalone_vars == <<clock, plans, store, migration_result, migration_status>>

vars == <<plan, ownership, api_registry, agent_status, queue, pc, result, delivered,
          receiver_alive, runner_vars, standalone_vars>>

coordinator_state == <<plan, ownership, api_registry, agent_status>>

coordination_vars ==
    <<plan, ownership, api_registry, agent_status, queue, pc, result, delivered,
      receiver_alive, runner_vars>>

(***************************************************************************)
(* Bounds of the model.                                                    *)
(***************************************************************************)
MaxQueue == 1

\* messages that may wait in the channel while a pass is cut short
MaxBacklog == 3

\* how far the clock runs, and how many plans are created meanwhile
MaxClock == 4
MaxPlans == 3

(***************************************************************************)
(* core/types.rs                                                           *)
(***************************************************************************)
AgentId ==
    {"Orchestrator", "Agent1", "Agent2", "Agent3", "Agent4", "Agent5", "Agent6"}

Pending == [tag |-> "Pending"]
Running == [tag |-> "Running"]
WaitingForDependency(dep) == [tag |-> "WaitingForDependency", dep |-> dep]
Completed == [tag |-> "Completed"]
Failed(reason) == [tag |-> "Failed", reason |-> reason]

TaskNotStarted == "NotStarted"
TaskCompletedStatus == "Completed"

Task(id, owner) == [id |-> id, owner |-> owner, status |-> TaskNotStarted]

FileOwnership(path, owner, shared) ==
    [path |-> path, owner |-> owner, shared |-> shared]

ApiPublished(agent, api_name, version) ==
    [agent |-> agent, api_name |-> api_name, version |-> version]

AgentReadyMsg(agent) == [type |-> "AgentReady", agent |-> agent]
ApiPublishedMsg(api) == [type |-> "ApiPublished", api |-> api]
TaskCompletedMsg(agent, task_id) ==
    [type |-> "TaskCompleted", agent |-> agent, task_id |-> task_id]
CoordinationRequestMsg(requester, target_agent, target_module) ==
    [type |-> "CoordinationRequest", requester |-> requester,
     target_agent |-> target_agent, target_module |-> target_module,
     reason |-> "needs change"]
CoordinationResponseMsg(request_id, approved) ==
    [type |-> "CoordinationResponse", request_id |-> request_id,
     approved |-> approved]
StatusUpdateMsg(agent, status) ==
    [type |-> "StatusUpdate", agent |-> agent, status |-> status]

(***************************************************************************)
(* orchestrator/planner.rs                                                 *)
(***************************************************************************)
create_task_breakdown ==
    << Task("orch-1", "Orchestrator"),
       Task("orch-2", "Orchestrator"),
       Task("orch-3", "Orchestrator"),
       Task("agent1-1", "Agent1"),
       Task("agent2-1", "Agent2"),
       Task("agent2-2", "Agent2"),
       Task("agent3-1", "Agent3"),
       Task("agent3-2", "Agent3"),
       Task("agent4-1", "Agent4"),
       Task("agent5-1", "Agent5"),
       Task("agent5-2", "Agent5"),
       Task("agent6-1", "Agent6") >>

create_file_ownership ==
    << FileOwnership("src-tauri/src/core", "Orchestrator", TRUE),
       FileOwnership("src/lib/agent/capture.ts", "Agent1", FALSE),
       FileOwnership("src/lib/core/observer.ts", "Agent1", FALSE),
       FileOwnership("src-tauri/src/memory", "Agent2", FALSE),
       FileOwnership("src/lib/agent/analysis-pipeline.ts", "Agent3", FALSE),
       FileOwnership("src/lib/agent/analysis-service.ts", "Agent3", FALSE),
       FileOwnership("src/lib/agent/analyzers", "Agent3", FALSE),
       FileOwnership("src/lib/agent/surfaces.ts", "Agent4", FALSE),
       FileOwnership("integrations", "Agent4", FALSE),
       FileOwnership("flake.nix", "Agent5", FALSE),
       FileOwnership("shell.nix", "Agent5", FALSE),
       FileOwnership(".github/workflows", "Agent5", FALSE),
       FileOwnership("ValidationChecklist.md", "Agent6", FALSE) >>

RoadmapItem(phase, agents, dependencies) ==
    [phase |-> phase, agents |-> agents, dependencies |-> dependencies]

create_roadmap ==
    << RoadmapItem("phase-1-orchestration", <<"Orchestrator">>, << >>),
       RoadmapItem("phase-2-parallel-agents", <<"Agent1", "Agent2">>,
                   <<"phase-1-orchestration">>),
       RoadmapItem("phase-3-analysis", <<"Agent3">>, <<"phase-2-parallel-agents">>),
       RoadmapItem("phase-4-surfaces", <<"Agent4">>, <<"phase-3-analysis">>),
       RoadmapItem("phase-5-continuous", <<"Agent5", "Agent6">>,
                   <<"phase-1-orchestration">>) >>

InterfaceStub(name, module_path, owner, method) ==
    [name |-> name, module_path |-> module_path, owner |-> owner, method |-> method]

create_interface_stubs ==
    << InterfaceStub("EventCapture", "src/lib/agent/capture.ts", "Agent1",
                     "captureCommandStart"),
       InterfaceStub("EventCapture", "src/lib/agent/capture.ts", "Agent1",
                     "captureCommandResult"),
       InterfaceStub("StorageApi", "src-tauri/src/memory/api.rs", "Agent2",
                     "append_event"),
       InterfaceStub("StorageApi", "src-tauri/src/memory/api.rs", "Agent2",
                     "list_sessions"),
       InterfaceStub("StorageApi", "src-tauri/src/memory/api.rs", "Agent2",
                     "persist_suggestion"),
       InterfaceStub("AnalysisPipeline", "src/lib/agent/analysis-pipeline.ts",
                     "Agent3", "enqueueFailure"),
       InterfaceStub("SuggestionSurface", "src/lib/agent/surfaces.ts", "Agent4",
                     "displaySuggestion") >>

\* the whole value create_execution_plan returns when the clock reads now;
\* the coordinator reads its tasks and file_ownership only
ExecutionPlan(now) ==
    [roadmap |-> create_roadmap,
     tasks |-> create_task_breakdown,
     interfaces |-> create_interface_stubs,
     file_ownership |-> create_file_ownership,
     created_at |-> now]

\* the plan the coordinator is constructed with: the one made when the
\* clock read 0, moved into ExecutionCoordinator::new and held by value
create_execution_plan == ExecutionPlan(0)

(***************************************************************************)
(* core/ownership.rs: OwnershipManager over ownership_map, a map from a    *)
(* path to its FileOwnership record.                                       *)
(***************************************************************************)
NoOwnership == << >>

ownership_register(map, fo) ==
    [p \in (DOMAIN map) \cup {fo.path} |-> IF p = fo.path THEN fo ELSE map[p]]

RECURSIVE register_all(_, _, _)
register_all(map, list, i) ==
    IF i > Len(list) THEN map
    ELSE register_all(ownership_register(map, list[i]), list, i + 1)

get_owner(map, path) ==
    IF path \in DOMAIN map THEN map[path].owner ELSE "None"

\* can_modify that lets the shared flag open a path to every agent
can_modify_shared(map, agent, path) ==
    IF path \in DOMAIN map
    THEN map[path].owner = agent \/ map[path].shared
    ELSE TRUE

can_modify(map, agent, path) ==
    IF path \in DOMAIN map
    THEN map[path].owner = agent \/ (map[path].shared /\ map[path].owner = agent)
    ELSE TRUE

(***************************************************************************)
(* core/coordination.rs: ApiRegistry over apis, a map from an api name to  *)
(* the ApiPublished record last registered under it.                       *)
(***************************************************************************)
NoApis == << >>

\* a registry that keeps the first record registered under a name
api_register_first_wins(apis, api) ==
    [n \in (DOMAIN apis) \cup {api.api_name} |->
        IF n \in DOMAIN apis THEN apis[n] ELSE api]

\* a registry that holds the newest record and nothing else
api_register_only_latest(apis, api) == [n \in {api.api_name} |-> api]

api_register(apis, api) ==
    [n \in (DOMAIN apis) \cup {api.api_name} |->
        IF n = api.api_name THEN api ELSE apis[n]]

\* Option<&ApiPublished> as a set of at most one record
get_api(apis, name) == IF name \in DOMAIN apis THEN {apis[name]} ELSE {}

get_agent_apis(apis, agent) ==
    {apis[n] : n \in {k \in DOMAIN apis : apis[k].agent = agent}}

(***************************************************************************)
(* orchestrator/coordinator.rs: the readiness predicate and the effect of  *)
(* each handler on the coordinator's fields, as functions of those fields. *)
(***************************************************************************)
\* can_agent_start whose Agent3 arm accepts an api published by anyone, and
\* whose Agent4 arm accepts the completion of any of Agent3's tasks
can_agent_start_any(status, apis, tasks, agent) ==
    CASE agent = "Orchestrator" -> TRUE
      [] agent \in {"Agent1", "Agent2", "Agent5", "Agent6"} ->
            status["Orchestrator"] \in {Running, Completed}
      [] agent = "Agent3" -> DOMAIN apis # {}
      [] agent = "Agent4" ->
            \E i \in 1..Len(tasks) :
                tasks[i].owner = "Agent3" /\ tasks[i].status = TaskCompletedStatus

can_agent_start(status, apis, tasks, agent) ==
    CASE agent = "Orchestrator" -> TRUE
      [] agent \in {"Agent1", "Agent2", "Agent5", "Agent6"} ->
            status["Orchestrator"] \in {Running, Completed}
      [] agent = "Agent3" -> Cardinality(get_agent_apis(apis, "Agent2")) > 0
      [] agent = "Agent4" ->
            \E i \in 1..Len(tasks) :
                tasks[i].id = "agent3-2" /\ tasks[i].status = TaskCompletedStatus

\* get_blocking_dependency without its Agent4 arm
get_blocking_dependency_no_agent4(agent) ==
    CASE agent = "Agent3" -> "Agent2"
      [] OTHER -> "Orchestrator"

get_blocking_dependency(agent) ==
    CASE agent = "Agent3" -> "Agent2"
      [] agent = "Agent4" -> "Agent3"
      [] OTHER -> "Orchestrator"

agent_ready_status(status, apis, tasks, agent) ==
    IF can_agent_start(status, apis, tasks, agent)
    THEN [status EXCEPT ![agent] = Running]
    ELSE [status EXCEPT
            ![agent] = WaitingForDependency(get_blocking_dependency(agent))]

\* handle_api_published without the check of the publisher
api_published_status_any_publisher(status, api) ==
    IF status["Agent3"] = WaitingForDependency("Agent2")
    THEN [status EXCEPT !["Agent3"] = Pending]
    ELSE status

\* handle_api_published that starts Agent3 instead of making it eligible
api_published_status_running(status, api) ==
    IF api.agent = "Agent2" /\ status["Agent3"] = WaitingForDependency("Agent2")
    THEN [status EXCEPT !["Agent3"] = Running]
    ELSE status

\* handle_api_published that registers the api and wakes nobody
api_published_status_keeps_waiting(status, api) == status

api_published_status(status, api) ==
    IF api.agent = "Agent2" /\ status["Agent3"] = WaitingForDependency("Agent2")
    THEN [status EXCEPT !["Agent3"] = Pending]
    ELSE status

\* plan.tasks.iter_mut().find(|t| t.id == task_id): the first match, if any
find_task(tasks, task_id) ==
    LET hits == {i \in 1..Len(tasks) : tasks[i].id = task_id}
    IN  IF hits = {} THEN 0 ELSE CHOOSE i \in hits : \A j \in hits : i <= j

\* handle_task_completed that completes every task of the owner of the task
task_completed_tasks_of_owner(tasks, task_id) ==
    LET i == find_task(tasks, task_id)
    IN  IF i = 0 THEN tasks
        ELSE [j \in 1..Len(tasks) |->
                IF tasks[j].owner = tasks[i].owner
                THEN [tasks[j] EXCEPT !.status = TaskCompletedStatus]
                ELSE tasks[j]]

\* handle_task_completed that takes a second completion for a restart
task_completed_tasks_restarts(tasks, task_id) ==
    LET i == find_task(tasks, task_id)
    IN  IF i = 0 THEN tasks
        ELSE [tasks EXCEPT ![i].status =
                 IF @ = TaskCompletedStatus THEN TaskNotStarted
                 ELSE TaskCompletedStatus]

task_completed_tasks(tasks, task_id) ==
    LET i == find_task(tasks, task_id)
    IN  IF i = 0 THEN tasks
        ELSE [tasks EXCEPT ![i].status = TaskCompletedStatus]

\* handle_task_completed without the check of Agent4's current status
task_completed_status_unguarded(status, agent, task_id) ==
    IF agent = "Agent3" /\ task_id = "agent3-2"
    THEN [status EXCEPT !["Agent4"] = Pending]
    ELSE status

task_completed_status(status, agent, task_id) ==
    IF agent = "Agent3" /\ task_id = "agent3-2"
       /\ status["Agent4"] = WaitingForDependency("Agent3")
    THEN [status EXCEPT !["Agent4"] = Pending]
    ELSE status

\* the value of a process_coordination call: none yet, Ok(()), or Err(text)
NoResult == [pending |-> TRUE]
Ok == [ok |-> TRUE]
Err(owner, module) ==
    [ok |-> FALSE, error |-> "does not own module", agent |-> owner,
     module |-> module]

coordination_request_result(map, requester, target_module) ==
    LET owner == get_owner(map, target_module)
    IN  IF owner # "None" /\ owner # requester
           /\ ~can_modify(map, requester, target_module)
        THEN Err(owner, target_module)
        ELSE Ok

\* the coordinator fields the handlers write, and one loop iteration of
\* process_coordination as a function of them and of the message taken
coordinator_fields(status, apis, tasks) ==
    [status |-> status, apis |-> apis, tasks |-> tasks]

dispatch(s, m) ==
    CASE m.type = "AgentReady" ->
            [s EXCEPT !.status = agent_ready_status(s.status, s.apis, s.tasks, m.agent)]
      [] m.type = "ApiPublished" ->
            [s EXCEPT !.apis = api_register(s.apis, m.api),
                      !.status = api_published_status(s.status, m.api)]
      [] m.type = "TaskCompleted" ->
            [s EXCEPT !.tasks = task_completed_tasks(s.tasks, m.task_id),
                      !.status = task_completed_status(s.status, m.agent, m.task_id)]
      [] m.type = "StatusUpdate" ->
            [s EXCEPT !.status = [s.status EXCEPT ![m.agent] = m.status]]
      [] OTHER -> s

(***************************************************************************)
(* History kept for stating properties: which messages the coordinator has *)
(* dispatched.  Requests and responses change nothing and are not kept; a  *)
(* status update is kept by the agent it overwrote.                        *)
(***************************************************************************)
history_of(m) ==
    CASE m.type \in {"AgentReady", "ApiPublished", "TaskCompleted"} -> {m}
      [] m.type = "StatusUpdate" ->
            {[type |-> "StatusUpdate", agent |-> m.agent]}
      [] OTHER -> {}

(***************************************************************************)
(* memory/migration.rs over the one key it reads and writes.  A stored     *)
(* JSON value is absent, not a number, a number that is not a u64, or the  *)
(* u64 number high * 2^32 + low, of which `as u32` keeps low.              *)
(***************************************************************************)
CURRENT_SCHEMA_VERSION == 1

Absent == [kind |-> "absent"]
JsonString(text) == [kind |-> "string", text |-> text]
JsonNull == [kind |-> "null"]
JsonNotU64 == [kind |-> "number", u64 |-> FALSE]
JsonU64(high, low) == [kind |-> "number", u64 |-> TRUE, high |-> high, low |-> low]

StoreError == [ok |-> FALSE, error |-> "store request failed"]
UnknownMigration(version) ==
    [ok |-> FALSE, error |-> "Unknown migration version", version |-> version]

get_current_version(value) ==
    IF value.kind = "number" /\ value.u64 THEN value.low ELSE 0

migrate_to_version(version) ==
    IF version = 1 THEN Ok ELSE UnknownMigration(version)

\* run_migrations that runs the migrations and leaves the stored version
run_migrations_unmarked(value, get_ok, put_ok) ==
    [store |-> value, result |-> IF get_ok THEN Ok ELSE StoreError]

\* get_ok, put_ok: whether the store answers the get and the put
run_migrations(value, get_ok, put_ok) ==
    IF ~get_ok THEN [store |-> value, result |-> StoreError]
    ELSE LET current_version == get_current_version(value)
             failing == {v \in (current_version + 1)..CURRENT_SCHEMA_VERSION :
                            migrate_to_version(v) # Ok}
         IN  IF current_version < CURRENT_SCHEMA_VERSION
             THEN IF failing # {}
                  THEN [store |-> value,
                        result |-> migrate_to_version(
                                     CHOOSE v \in failing : \A w \in failing : v <= w)]
                  ELSE IF put_ok
                       THEN [store |-> JsonU64(0, CURRENT_SCHEMA_VERSION), result |-> Ok]
                       ELSE [store |-> value, result |-> StoreError]
             ELSE [store |-> value, result |-> Ok]

MigrationStatus(current_version) ==
    [current_version |-> current_version,
     target_version |-> CURRENT_SCHEMA_VERSION,
     is_up_to_date |-> current_version >= CURRENT_SCHEMA_VERSION]

get_migration_status(value) == MigrationStatus(get_current_version(value))

(***************************************************************************)
(* ExecutionCoordinator::new                                               *)
(***************************************************************************)
\* new that leaves Agent4 Pending
new_agent_status_agent4_pending ==
    [a \in AgentId |->
        CASE a = "Orchestrator" -> Running
          [] a = "Agent3" -> WaitingForDependency("Agent2")
          [] OTHER -> Pending]

new_agent_status ==
    [a \in AgentId |->
        CASE a = "Orchestrator" -> Running
          [] a = "Agent3" -> WaitingForDependency("Agent2")
          [] a = "Agent4" -> WaitingForDependency("Agent3")
          [] OTHER -> Pending]

\* the workers a ParallelExecutionRunner owns (agent1 .. agent6)
Workers == {"Agent1", "Agent2", "Agent3", "Agent4", "Agent5", "Agent6"}

Init ==
    /\ plan = create_execution_plan
    /\ ownership = register_all(NoOwnership, create_execution_plan.file_ownership, 1)
    /\ api_registry = NoApis
    /\ agent_status = new_agent_status
    /\ queue = << >>
    /\ pc = "idle"
    /\ result = NoResult
    /\ delivered = {}
    /\ receiver_alive = TRUE
    /\ rpc = "idle"
    /\ worker_pc = [a \in Workers |-> "idle"]
    /\ own_status = [a \in Workers |-> Pending]
    /\ agent_lock = [a \in Workers |-> FALSE]
    /\ run_result = NoResult
    /\ runner_log = << >>
    /\ clock = 0
    /\ plans = << >>
    /\ store = Absent
    /\ migration_result = NoResult
    /\ migration_status = NoResult

(***************************************************************************)
(* CoordinationHandle: every sender appends one message to the channel.    *)
(***************************************************************************)
\* a send that has the coordinator handle the message at once
send_within_dispatching(m, capacity) ==
    /\ receiver_alive
    /\ Len(queue) < capacity
    /\ LET s == dispatch(coordinator_fields(agent_status, api_registry, plan.tasks), m)
       IN  /\ agent_status' = s.status
           /\ api_registry' = s.apis
           /\ plan' = [plan EXCEPT !.tasks = s.tasks]
    /\ UNCHANGED <<queue, ownership, pc, result, delivered>>
    /\ UNCHANGED <<receiver_alive, runner_vars, standalone_vars>>

send_within(m, capacity) ==
    /\ receiver_alive
    /\ Len(queue) < capacity
    /\ queue' = Append(queue, m)
    /\ UNCHANGED <<plan, ownership, api_registry, agent_status, pc, result, delivered>>
    /\ UNCHANGED <<receiver_alive, runner_vars, standalone_vars>>

send(m) == send_within(m, MaxQueue)

agent_ready(agents) == \E a \in agents : send(AgentReadyMsg(a))

api_published(apis) == \E api \in apis : send(ApiPublishedMsg(api))

task_completed(completions) ==
    \E c \in completions : send(TaskCompletedMsg(c[1], c[2]))

status_update(updates) ==
    \E u \in updates : send(StatusUpdateMsg(u[1], u[2]))

request_coordination(requests) ==
    \E r \in requests : send(CoordinationRequestMsg(r[1], r[2], r[3]))

send_response(responses) ==
    \E r \in responses : send(CoordinationResponseMsg(r[1], r[2]))

(***************************************************************************)
(* ExecutionCoordinator::process_coordination: the call, one action per    *)
(* match arm (try_recv took the head of the channel), and the return when  *)
(* try_recv finds the channel empty.                                       *)
(***************************************************************************)
process_coordination_call ==
    /\ pc = "idle"
    /\ pc' = "draining"
    /\ result' = NoResult
    /\ UNCHANGED <<plan, ownership, api_registry, agent_status, queue, delivered>>
    /\ UNCHANGED <<receiver_alive, standalone_vars>>

process_coordination ==
    /\ process_coordination_call
    /\ UNCHANGED runner_vars

received(type) ==
    /\ pc = "draining"
    /\ queue # << >>
    /\ Head(queue).type = type
    /\ queue' = Tail(queue)
    /\ delivered' = delivered \cup history_of(Head(queue))
    /\ UNCHANGED <<receiver_alive, runner_vars, standalone_vars>>

handle_agent_ready ==
    /\ received("AgentReady")
    /\ agent_status' = agent_ready_status(agent_status, api_registry,
                                          plan.tasks, Head(queue).agent)
    /\ UNCHANGED <<plan, ownership, api_registry, pc, result>>

handle_api_published ==
    /\ received("ApiPublished")
    /\ api_registry' = api_register(api_registry, Head(queue).api)
    /\ agent_status' = api_published_status(agent_status, Head(queue).api)
    /\ UNCHANGED <<plan, ownership, pc, result>>

handle_task_completed ==
    /\ received("TaskCompleted")
    /\ plan' = [plan EXCEPT
                  !.tasks = task_completed_tasks(plan.tasks, Head(queue).task_id)]
    /\ agent_status' = task_completed_status(agent_status, Head(queue).agent,
                                             Head(queue).task_id)
    /\ UNCHANGED <<ownership, api_registry, pc, result>>

\* a denial that also throws away what is queued behind the request
handle_coordination_request_flush ==
    /\ pc = "draining"
    /\ queue # << >>
    /\ Head(queue).type = "CoordinationRequest"
    /\ delivered' = delivered
    /\ LET r == coordination_request_result(ownership, Head(queue).requester,
                                            Head(queue).target_module)
       IN  IF r = Ok
           THEN queue' = Tail(queue) /\ UNCHANGED <<pc, result>>
           ELSE queue' = << >> /\ pc' = "idle" /\ result' = r
    /\ UNCHANGED <<plan, ownership, api_registry, agent_status>>
    /\ UNCHANGED <<receiver_alive, runner_vars, standalone_vars>>

\* an accepted request that makes the requester the owner of the module
handle_coordination_request_grants ==
    /\ received("CoordinationRequest")
    /\ LET r == coordination_request_result(ownership, Head(queue).requester,
                                            Head(queue).target_module)
       IN  IF r = Ok
           THEN /\ ownership' =
                      ownership_register(ownership,
                          FileOwnership(Head(queue).target_module,
                                        Head(queue).requester, FALSE))
                /\ UNCHANGED <<pc, result>>
           ELSE /\ pc' = "idle" /\ result' = r
                /\ UNCHANGED ownership
    /\ UNCHANGED <<plan, api_registry, agent_status>>

handle_coordination_request ==
    /\ received("CoordinationRequest")
    /\ LET r == coordination_request_result(ownership, Head(queue).requester,
                                            Head(queue).target_module)
       IN  IF r = Ok
           THEN UNCHANGED <<pc, result>>
           ELSE pc' = "idle" /\ result' = r
    /\ UNCHANGED <<plan, ownership, api_registry, agent_status>>

\* a StatusUpdate arm that keeps a gated agent from being set Running
status_update_arm_gated ==
    /\ received("StatusUpdate")
    /\ agent_status' =
          IF Head(queue).status = Running
             /\ ~can_agent_start(agent_status, api_registry, plan.tasks,
                                 Head(queue).agent)
          THEN agent_status
          ELSE [agent_status EXCEPT ![Head(queue).agent] = Head(queue).status]
    /\ UNCHANGED <<plan, ownership, api_registry, pc, result>>

status_update_arm ==
    /\ received("StatusUpdate")
    /\ agent_status' = [agent_status EXCEPT ![Head(queue).agent] = Head(queue).status]
    /\ UNCHANGED <<plan, ownership, api_registry, pc, result>>

\* a CoordinationResponse arm that takes an approval for the end of the
\* orchestrator's work
coordination_response_arm_completes ==
    /\ received("CoordinationResponse")
    /\ agent_status' =
          IF Head(queue).approved
          THEN [agent_status EXCEPT !["Orchestrator"] = Completed]
          ELSE agent_status
    /\ UNCHANGED <<plan, ownership, api_registry, pc, result>>

coordination_response_arm ==
    /\ received("CoordinationResponse")
    /\ UNCHANGED <<plan, ownership, api_registry, agent_status, pc, result>>

\* the return that forgets the statuses it was handed
process_coordination_return_reset ==
    /\ pc = "draining"
    /\ queue = << >>
    /\ pc' = "idle"
    /\ result' = Ok
    /\ agent_status' = new_agent_status
    /\ UNCHANGED <<plan, ownership, api_registry, queue, delivered>>
    /\ UNCHANGED <<receiver_alive, runner_vars, standalone_vars>>

\* a pass that may return before the channel is empty
process_coordination_return_any_time ==
    /\ pc = "draining"
    /\ pc' = "idle"
    /\ result' = Ok
    /\ UNCHANGED <<plan, ownership, api_registry, agent_status, queue, delivered>>
    /\ UNCHANGED <<receiver_alive, runner_vars, standalone_vars>>

process_coordination_return ==
    /\ pc = "draining"
    /\ queue = << >>
    /\ pc' = "idle"
    /\ result' = Ok
    /\ UNCHANGED <<plan, ownership, api_registry, agent_status, queue, delivered>>
    /\ UNCHANGED <<receiver_alive, runner_vars, standalone_vars>>

(***************************************************************************)
(* agents/agent1.rs .. agent6.rs: a worker is called (by a spawned task or *)
(* inline), takes its mutex, runs initialize and then execute.  execute    *)
(* sends AgentReady, sleeps, sends its second message if it has one, sets  *)
(* its status and returns; a failed send returns the error at once.  The   *)
(* mutex guard is dropped when the call returns.                           *)
(***************************************************************************)
\* every worker reports a task of its own as completed when it is done
second_message_reports_task(a) ==
    CASE a = "Agent2" ->
            <<ApiPublishedMsg(ApiPublished("Agent2", "StorageApi", "1.0.0"))>>
      [] a = "Agent3" -> <<TaskCompletedMsg("Agent3", "agent3-2")>>
      [] a = "Agent4" -> <<TaskCompletedMsg("Agent4", "agent4-1")>>
      [] OTHER -> << >>

second_message(a) ==
    CASE a = "Agent2" ->
            <<ApiPublishedMsg(ApiPublished("Agent2", "StorageApi", "1.0.0"))>>
      [] a = "Agent3" -> <<TaskCompletedMsg("Agent3", "agent3-2")>>
      [] OTHER -> << >>

\* Agent5 and Agent6 deem themselves complete when execute returns
status_after_execute_all_complete(a, status) == Completed

status_after_execute(a, status) ==
    IF a \in {"Agent5", "Agent6"} THEN status ELSE Completed

coordinator_untouched ==
    /\ UNCHANGED <<plan, ownership, api_registry, agent_status, pc, result, delivered>>
    /\ UNCHANGED standalone_vars

lock_agent(a) ==
    /\ worker_pc[a] = "called"
    /\ ~agent_lock[a]
    /\ agent_lock' = [agent_lock EXCEPT ![a] = TRUE]
    /\ worker_pc' = [worker_pc EXCEPT ![a] = "locked"]
    /\ coordinator_untouched
    /\ UNCHANGED <<queue, receiver_alive, rpc, own_status, run_result, runner_log>>

initialize(a) ==
    /\ worker_pc[a] = "locked"
    /\ own_status' = [own_status EXCEPT ![a] = Running]
    /\ worker_pc' = [worker_pc EXCEPT ![a] = "initialized"]
    /\ coordinator_untouched
    /\ UNCHANGED <<queue, receiver_alive, rpc, agent_lock, run_result, runner_log>>

\* the `?` on a send that found the receiver gone: execute returns Err
execute_fails(a) ==
    /\ worker_pc' = [worker_pc EXCEPT ![a] = "failed"]
    /\ agent_lock' = [agent_lock EXCEPT ![a] = FALSE]
    /\ UNCHANGED <<queue, own_status>>

\* a worker that goes on to sleep although its send returned Err
execute_signal_ready_unchecked(a) ==
    /\ worker_pc[a] = "initialized"
    /\ queue' = IF receiver_alive THEN Append(queue, AgentReadyMsg(a)) ELSE queue
    /\ worker_pc' = [worker_pc EXCEPT ![a] = "working"]
    /\ UNCHANGED <<own_status, agent_lock>>
    /\ coordinator_untouched
    /\ UNCHANGED <<receiver_alive, rpc, run_result, runner_log>>

execute_signal_ready(a) ==
    /\ worker_pc[a] = "initialized"
    /\ IF receiver_alive
       THEN /\ queue' = Append(queue, AgentReadyMsg(a))
            /\ worker_pc' = [worker_pc EXCEPT ![a] = "working"]
            /\ UNCHANGED <<own_status, agent_lock>>
       ELSE execute_fails(a)
    /\ coordinator_untouched
    /\ UNCHANGED <<receiver_alive, rpc, run_result, runner_log>>

\* a channel that hands the newest message out first
execute_after_work_prepends(a) ==
    /\ worker_pc[a] = "working"
    /\ IF second_message(a) = << >> \/ receiver_alive
       THEN /\ queue' = second_message(a) \o queue
            /\ own_status' = [own_status EXCEPT
                                ![a] = status_after_execute(a, own_status[a])]
            /\ worker_pc' = [worker_pc EXCEPT ![a] = "returned"]
            /\ agent_lock' = [agent_lock EXCEPT ![a] = FALSE]
       ELSE execute_fails(a)
    /\ coordinator_untouched
    /\ UNCHANGED <<receiver_alive, rpc, run_result, runner_log>>

\* an execute that returns with the guard of the agent's mutex still held
execute_after_work_keeps_lock(a) ==
    /\ worker_pc[a] = "working"
    /\ IF second_message(a) = << >> \/ receiver_alive
       THEN /\ queue' = queue \o second_message(a)
            /\ own_status' = [own_status EXCEPT
                                ![a] = status_after_execute(a, own_status[a])]
            /\ worker_pc' = [worker_pc EXCEPT ![a] = "returned"]
            /\ UNCHANGED agent_lock
       ELSE execute_fails(a)
    /\ coordinator_untouched
    /\ UNCHANGED <<receiver_alive, rpc, run_result, runner_log>>

execute_after_work(a) ==
    /\ worker_pc[a] = "working"
    /\ IF second_message(a) = << >> \/ receiver_alive
       THEN /\ queue' = queue \o second_message(a)
            /\ own_status' = [own_status EXCEPT
                                ![a] = status_after_execute(a, own_status[a])]
            /\ worker_pc' = [worker_pc EXCEPT ![a] = "returned"]
            /\ agent_lock' = [agent_lock EXCEPT ![a] = FALSE]
       ELSE execute_fails(a)
    /\ coordinator_untouched
    /\ UNCHANGED <<receiver_alive, rpc, run_result, runner_log>>

(***************************************************************************)
(* The coordinator under senders that may send, at any time, any of the    *)
(* messages that bear on the gates of Agent3 and Agent4.                   *)
(***************************************************************************)
ReadyAgents == {"Agent3", "Agent4"}

PublishedApis ==
    {ApiPublished("Agent2", "StorageApi", "1.0.0"),
     ApiPublished("Agent3", "StorageApi", "1.0.0")}

Completions ==
    {<<"Agent3", "agent3-2">>, <<"Agent2", "agent3-2">>}

StatusUpdates ==
    {<<"Agent3", Running>>, <<"Agent4", Running>>, <<"Agent4", Completed>>,
     <<"Agent4", Failed("crashed")>>,
     <<"Agent4", WaitingForDependency("Agent3")>>}

Next ==
    \/ agent_ready(ReadyAgents)
    \/ api_published(PublishedApis)
    \/ task_completed(Completions)
    \/ status_update(StatusUpdates)
    \/ process_coordination
    \/ handle_agent_ready
    \/ handle_api_published
    \/ handle_task_completed
    \/ status_update_arm
    \/ process_coordination_return

Spec == Init /\ [][Next]_vars

(***************************************************************************)
(* The coordinator when every agent announces itself and the orchestrator  *)
(* status is overwritten: the readiness predicate on all of its arms.      *)
(***************************************************************************)
OrchestratorUpdates ==
    {<<"Orchestrator", Failed("crashed")>>, <<"Orchestrator", Completed>>}

NextReady ==
    \/ agent_ready(AgentId)
    \/ api_published({ApiPublished("Agent2", "StorageApi", "1.0.0")})
    \/ task_completed({<<"Agent3", "agent3-2">>})
    \/ status_update(OrchestratorUpdates)
    \/ process_coordination
    \/ handle_agent_ready
    \/ handle_api_published
    \/ handle_task_completed
    \/ status_update_arm
    \/ process_coordination_return

SpecReady == Init /\ [][NextReady]_vars

(***************************************************************************)
(* The coordinator under coordination requests, responses and completions  *)
(* of tasks no agent is gated on, one of them absent from the plan.        *)
(***************************************************************************)
Requests ==
    {"Orchestrator", "Agent1", "Agent2"} \X {"Agent2", "Agent3"}
        \X {"src-tauri/src/memory", "src-tauri/src/core", "README.md"}

Responses == {<<"req-1", TRUE>>, <<"req-1", FALSE>>}

OtherCompletions == {<<"Agent3", "agent3-1">>, <<"Agent3", "agent9-9">>}

NextRequests ==
    \/ request_coordination(Requests)
    \/ send_response(Responses)
    \/ task_completed(OtherCompletions)
    \/ process_coordination
    \/ handle_coordination_request
    \/ coordination_response_arm
    \/ handle_task_completed
    \/ process_coordination_return

SpecRequests == Init /\ [][NextRequests]_vars

(***************************************************************************)
(* Vocabulary of the properties.                                           *)
(***************************************************************************)
\* this step is the coordinator dispatching the head of the channel
Dispatching(type) ==
    /\ pc = "draining"
    /\ queue # << >>
    /\ Head(queue).type = type
    /\ queue' = Tail(queue)

IsErr(r) == "ok" \in DOMAIN r /\ ~r.ok

HasApiFrom(agent) ==
    \E n \in DOMAIN api_registry : api_registry[n].agent = agent

TaskIsCompleted(id) ==
    \E i \in 1..Len(plan.tasks) :
        plan.tasks[i].id = id /\ plan.tasks[i].status = "Completed"

NoStatusUpdate(agent) ==
    [type |-> "StatusUpdate", agent |-> agent] \notin delivered

\* no agent other than Agent2 has published under a name Agent2 published
NoRepublication ==
    \A m \in delivered : \A n \in delivered :
        (/\ m.type = "ApiPublished" /\ n.type = "ApiPublished"
         /\ m.api.agent = "Agent2" /\ n.api.agent # "Agent2")
            => m.api.api_name # n.api.api_name

Started(agent) == agent_status[agent] \in {Running, Completed}

(***************************************************************************)
(* C1 (as stated): status[Agent3] is never Running or Completed while the  *)
(* registry holds no record published by Agent2, and status[Agent4] is     *)
(* never Running or Completed while task "agent3-2" is not Completed.      *)
(***************************************************************************)
C1_NeverStartedBeforeGate ==
    /\ Started("Agent3") => HasApiFrom("Agent2")
    /\ Started("Agent4") => TaskIsCompleted("agent3-2")

(***************************************************************************)
(* C1 (amended): as long as no StatusUpdate for the worker has been        *)
(* processed, status[Agent4] is never Running or Completed while task      *)
(* "agent3-2" is not Completed, and status[Agent3] is never Running or     *)
(* Completed while the registry holds no record published by Agent2,       *)
(* unless another agent has published under a name Agent2 published.       *)
(***************************************************************************)
C1_GatedWithoutOverwrite ==
    /\ (NoStatusUpdate("Agent3") /\ NoRepublication /\ Started("Agent3"))
            => HasApiFrom("Agent2")
    /\ (NoStatusUpdate("Agent4") /\ Started("Agent4"))
            => TaskIsCompleted("agent3-2")

C1_Witness ==
    /\ agent_status["Agent3"] = Running /\ NoStatusUpdate("Agent3")
    /\ NoRepublication /\ HasApiFrom("Agent2")
    /\ agent_status["Agent4"] = Running /\ NoStatusUpdate("Agent4")
    /\ TaskIsCompleted("agent3-2")

C3_RedeliveryChangesNothing ==
    [][(Dispatching("TaskCompleted") /\ Head(queue) \in delivered)
            => (plan' = plan /\ agent_status' = agent_status)]_vars

(***************************************************************************)
(* C3 (amended): dispatching a TaskCompleted leaves its task, if the plan  *)
(* has it, Completed, and dispatching the same message again at once       *)
(* changes nothing; dispatched again later it changes nothing either, as   *)
(* long as no StatusUpdate for Agent4 has been processed.                  *)
(***************************************************************************)
C3_IdempotentWithoutStatusUpdate ==
    [][Dispatching("TaskCompleted") =>
        LET m == Head(queue)
        IN  /\ \A i \in 1..Len(plan.tasks) :
                    plan.tasks[i].id = m.task_id =>
                        plan'.tasks[i].status = "Completed"
            /\ task_completed_tasks(plan'.tasks, m.task_id) = plan'.tasks
            /\ task_completed_status(agent_status', m.agent, m.task_id)
                    = agent_status'
            /\ (m \in delivered /\ NoStatusUpdate("Agent4"))
                    => (plan' = plan /\ agent_status' = agent_status)]_vars

C3_Witness ==
    /\ pc = "draining"
    /\ queue = <<TaskCompletedMsg("Agent3", "agent3-2")>>
    /\ TaskCompletedMsg("Agent3", "agent3-2") \in delivered
    /\ NoStatusUpdate("Agent4")
    /\ agent_status["Agent4"] = Running

(***************************************************************************)
(* C4: dispatching a CoordinationRequest ends the pass with an error iff   *)
(* target_module is a registered path whose owner is not the requester;    *)
(* otherwise the pass goes on; the ownership registry is unchanged and     *)
(* target_agent plays no part.                                             *)
(***************************************************************************)
C4_DeniedIffForeignOwner ==
    [][Dispatching("CoordinationRequest") =>
        LET m == Head(queue)
            foreign == /\ m.target_module \in DOMAIN ownership
                       /\ ownership[m.target_module].owner # m.requester
        IN  /\ foreign => (pc' = "idle" /\ IsErr(result'))
            /\ ~foreign => (pc' = "draining" /\ result' = result)
            /\ ownership' = ownership]_vars

C4_Witness ==
    /\ pc = "idle"
    /\ IsErr(result)
    /\ result.module = "src-tauri/src/core"
    /\ result.agent = "Orchestrator"

(***************************************************************************)
(* C5: process_coordination finding the channel empty returns Ok and       *)
(* leaves plan, ownership registry, api registry and statuses unchanged.   *)
(***************************************************************************)
C5_EmptyDrainIsNoOp ==
    [][(pc = "draining" /\ queue = << >> /\ pc' # pc) =>
        /\ pc' = "idle"
        /\ result' = Ok
        /\ queue' = << >>
        /\ UNCHANGED coordinator_state]_vars

C5_Witness ==
    /\ pc = "idle"
    /\ result = Ok
    /\ queue = << >>
    /\ agent_status["Agent3"] = Running
    /\ HasApiFrom("Agent2")

(***************************************************************************)
(* C6: from the freshly constructed coordinator, once AgentReady(Agent1)   *)
(* and AgentReady(Agent2) have been dispatched both agents are Running;    *)
(* once Agent2's ApiPublished has been dispatched as well Agent3 is        *)
(* Pending; once TaskCompleted(Agent3, "agent3-2") has been dispatched as  *)
(* well Agent4 is Pending.                                                 *)
(***************************************************************************)
C6_EndToEnd ==
    LET ready == {AgentReadyMsg("Agent1"), AgentReadyMsg("Agent2")}
        api == ApiPublishedMsg(ApiPublished("Agent2", "StorageApi", "1.0.0"))
        done == TaskCompletedMsg("Agent3", "agent3-2")
    IN  /\ delivered = ready =>
            /\ agent_status["Agent1"] = Running
            /\ agent_status["Agent2"] = Running
            /\ agent_status["Agent3"] = WaitingForDependency("Agent2")
            /\ agent_status["Agent4"] = WaitingForDependency("Agent3")
        /\ delivered = ready \cup {api} =>
            /\ agent_status["Agent1"] = Running
            /\ agent_status["Agent2"] = Running
            /\ agent_status["Agent3"] = Pending
            /\ agent_status["Agent4"] = WaitingForDependency("Agent3")
        /\ delivered = ready \cup {api, done} =>
            /\ agent_status["Agent1"] = Running
            /\ agent_status["Agent2"] = Running
            /\ agent_status["Agent3"] = Pending
            /\ agent_status["Agent4"] = Pending

C6_Witness ==
    /\ delivered = {AgentReadyMsg("Agent1"), AgentReadyMsg("Agent2"),
                    ApiPublishedMsg(ApiPublished("Agent2", "StorageApi", "1.0.0")),
                    TaskCompletedMsg("Agent3", "agent3-2")}
    /\ agent_status["Agent3"] = Pending
    /\ agent_status["Agent4"] = Pending

(***************************************************************************)
(* C7: dispatching a TaskCompleted whose task_id names no task of the plan *)
(* ends the pass with an error.                                            *)
(***************************************************************************)
C7_UnknownTaskIsAnError ==
    [][(/\ Dispatching("TaskCompleted")
        /\ \A i \in 1..Len(plan.tasks) : plan.tasks[i].id # Head(queue).task_id)
            => (pc' = "idle" /\ IsErr(result'))]_vars

(***************************************************************************)
(* C8: dispatching AgentReady(w) sets status[w] to Running if can_start(w) *)
(* holds and to WaitingForDependency(blocking_dep(w)) otherwise, and       *)
(* changes no other status.  can_start: Orchestrator always; Agents 1, 2,  *)
(* 5, 6 iff the Orchestrator is Running or Completed; Agent3 iff the       *)
(* registry holds a record published by Agent2; Agent4 iff task "agent3-2" *)
(* is Completed.  blocking_dep: Agent2 for Agent3, Agent3 for Agent4, the  *)
(* Orchestrator for the others.                                            *)
(***************************************************************************)
C8_AgentReadyFollowsCanStart ==
    [][Dispatching("AgentReady") =>
        LET w == Head(queue).agent
            can_start ==
                \/ w = "Orchestrator"
                \/ /\ w \in {"Agent1", "Agent2", "Agent5", "Agent6"}
                   /\ agent_status["Orchestrator"].tag \in {"Running", "Completed"}
                \/ w = "Agent3" /\ HasApiFrom("Agent2")
                \/ w = "Agent4" /\ TaskIsCompleted("agent3-2")
            blocking_dep ==
                IF w = "Agent3" THEN "Agent2"
                ELSE IF w = "Agent4" THEN "Agent3" ELSE "Orchestrator"
        IN  /\ can_start => agent_status'[w] = Running
            /\ ~can_start => agent_status'[w] = WaitingForDependency(blocking_dep)
            /\ \A v \in AgentId \ {w} : agent_status'[v] = agent_status[v]]_vars

C8_Witness ==
    /\ agent_status["Orchestrator"] = Completed
    /\ agent_status["Agent5"] = WaitingForDependency("Orchestrator")
    /\ agent_status["Agent6"] = Running
    /\ agent_status["Agent3"] = Running
    /\ agent_status["Agent4"] = WaitingForDependency("Agent3")
    /\ AgentReadyMsg("Agent4") \in delivered

(***************************************************************************)
(* C9 (as stated): once status[w] is Completed or Failed, no dispatched    *)
(* message changes status[w].                                              *)
(***************************************************************************)
C9_TerminalStatusesStay ==
    [][\A w \in AgentId :
        agent_status[w].tag \in {"Completed", "Failed"}
            => agent_status'[w] = agent_status[w]]_vars

(***************************************************************************)
(* C9 (amended): once status[w] is Completed or Failed, the only messages  *)
(* whose dispatch changes status[w] are AgentReady(w) and                  *)
(* StatusUpdate(w, s); no ApiPublished and no TaskCompleted changes it.    *)
(***************************************************************************)
C9_TerminalUnlessReadyOrUpdate ==
    [][\A w \in AgentId :
        (/\ agent_status[w].tag \in {"Completed", "Failed"}
         /\ agent_status'[w] # agent_status[w])
            => /\ Dispatching("AgentReady") \/ Dispatching("StatusUpdate")
               /\ Head(queue).agent = w]_vars

C9_Witness ==
    /\ agent_status["Agent4"] = Completed
    /\ pc = "draining"
    /\ queue = <<TaskCompletedMsg("Agent3", "agent3-2")>>

(***************************************************************************)
(* C10: right after ExecutionCoordinator::new the Orchestrator is Running, *)
(* Agents 1, 2, 5, 6 are Pending, Agent3 waits for Agent2 and Agent4 for   *)
(* Agent3; the api registry and the channel are empty; the ownership       *)
(* registry holds exactly the plan's file_ownership entries.               *)
(***************************************************************************)
C10_InitialState ==
    (pc = "idle" /\ result = NoResult /\ queue = << >>) =>
        /\ agent_status["Orchestrator"] = Running
        /\ \A a \in {"Agent1", "Agent2", "Agent5", "Agent6"} :
                agent_status[a] = Pending
        /\ agent_status["Agent3"] = WaitingForDependency("Agent2")
        /\ agent_status["Agent4"] = WaitingForDependency("Agent3")
        /\ DOMAIN agent_status = AgentId
        /\ DOMAIN api_registry = {}
        /\ DOMAIN ownership =
                {plan.file_ownership[i].path : i \in 1..Len(plan.file_ownership)}
        /\ \A i \in 1..Len(plan.file_ownership) :
                ownership[plan.file_ownership[i].path] = plan.file_ownership[i]

C10_Witness ==
    /\ pc = "idle" /\ result = NoResult /\ queue = << >>
    /\ agent_status["Agent4"] = WaitingForDependency("Agent3")
    /\ Cardinality(DOMAIN ownership) = 13

(***************************************************************************)
(* The coordinator with a backlog: senders may queue several messages      *)
(* before and during a pass, among them a request for a module the         *)
(* requester does not own.                                                 *)
(***************************************************************************)
Backlog ==
    {AgentReadyMsg("Agent1"),
     CoordinationRequestMsg("Agent1", "Agent2", "src-tauri/src/memory"),
     TaskCompletedMsg("Agent3", "agent3-1")}

send_backlog == \E m \in Backlog : send_within(m, MaxBacklog)

NextBacklog ==
    \/ send_backlog
    \/ process_coordination
    \/ handle_agent_ready
    \/ handle_task_completed
    \/ handle_coordination_request
    \/ process_coordination_return

SpecBacklog == Init /\ [][NextBacklog]_vars

Denied(m) ==
    IsErr(coordination_request_result(ownership, m.requester, m.target_module))

\* C11: a denied request ends the pass with Err and nothing else: the
\* request is consumed, the messages behind it stay queued in their order,
\* the coordinator state built so far is kept, the next call finds that
\* queue and that state, and a pass that reaches the end of the queue
\* returns Ok whatever the pass before it returned.
C11_DenialEndsThePassOnly ==
    /\ [][(/\ pc = "draining"
            /\ queue # << >>
            /\ Head(queue).type = "CoordinationRequest"
            /\ Denied(Head(queue))
            /\ Len(queue') < Len(queue))
            => /\ pc' = "idle"
               /\ IsErr(result')
               /\ queue' = Tail(queue)
               /\ UNCHANGED coordinator_state]_vars
    /\ [][(pc = "idle" /\ IsErr(result) /\ pc' = "draining")
            => UNCHANGED <<queue, coordinator_state>>]_vars
    /\ [][(pc = "draining" /\ queue = << >> /\ pc' = "idle")
            => result' = Ok /\ UNCHANGED coordinator_state]_vars
    /\ [](pc = "idle" => ENABLED process_coordination)

C11_Witness ==
    /\ pc = "idle"
    /\ IsErr(result)
    /\ agent_status["Agent1"] = Running
    /\ queue = <<TaskCompletedMsg("Agent3", "agent3-1"), AgentReadyMsg("Agent1")>>


(***************************************************************************)
(* Order of arrival: two messages of unrelated senders, dispatched in      *)
(* either order from the state the coordinator is in.                      *)
(***************************************************************************)
CommuteMessages ==
    {AgentReadyMsg(a) : a \in {"Agent1", "Agent3", "Agent4", "Agent5"}}
    \cup {ApiPublishedMsg(ApiPublished(a[1], a[2], "1.0.0")) :
            a \in {<<"Agent2", "StorageApi">>, <<"Agent1", "StorageApi">>,
                   <<"Agent1", "EventApi">>, <<"Agent5", "EventApi">>}}
    \cup {TaskCompletedMsg(c[1], c[2]) :
            c \in {<<"Agent3", "agent3-2">>, <<"Agent1", "agent3-2">>,
                   <<"Agent1", "agent1-1">>}}
    \cup {StatusUpdateMsg(u[1], u[2]) :
            u \in {<<"Agent3", Running>>, <<"Agent1", Completed>>,
                   <<"Agent4", WaitingForDependency("Agent3")>>}}

sender_of(m) == IF m.type = "ApiPublished" THEN m.api.agent ELSE m.agent

Unrelated(a, b) ==
    /\ a # b
    /\ get_blocking_dependency(a) # b
    /\ get_blocking_dependency(b) # a

Here == coordinator_fields(agent_status, api_registry, plan.tasks)

Commute(s, m1, m2) == dispatch(dispatch(s, m1), m2) = dispatch(dispatch(s, m2), m1)

\* a capability name is published by one worker only: the name is neither
\* held for another worker nor carried by the other message
OwnName(s, m, other) ==
    m.type = "ApiPublished" =>
        /\ m.api.api_name \in DOMAIN s.apis
              => s.apis[m.api.api_name].agent = m.api.agent
        /\ other.type = "ApiPublished" => other.api.api_name # m.api.api_name

\* a completion is reported by the owner of the task
OwnTask(s, m) ==
    m.type = "TaskCompleted" =>
        \A i \in 1..Len(s.tasks) :
            s.tasks[i].id = m.task_id => s.tasks[i].owner = m.agent

\* C12 as stated: from every coordinator state, two messages of unrelated
\* senders give the same statuses, registry and task statuses in either
\* order of processing.
C12_UnrelatedMessagesCommute ==
    (pc = "idle" /\ queue = << >>) =>
        \A m1, m2 \in CommuteMessages :
            Unrelated(sender_of(m1), sender_of(m2)) => Commute(Here, m1, m2)

\* C12 amended: two messages of unrelated senders commute when every
\* capability name involved is published by one worker only and every
\* completion is reported by the owner of its task.
C12_CommuteWithOwnNamesAndTasks ==
    (pc = "idle" /\ queue = << >>) =>
        \A m1, m2 \in CommuteMessages :
            (/\ Unrelated(sender_of(m1), sender_of(m2))
             /\ OwnName(Here, m1, m2) /\ OwnName(Here, m2, m1)
             /\ OwnTask(Here, m1) /\ OwnTask(Here, m2))
            => Commute(Here, m1, m2)

\* Agent2's record is held, Agent3 and Agent4 wait: AgentReady(Agent3) and
\* the owner's completion of agent1-1 both change the state, in either order
C12_Witness ==
    /\ pc = "idle" /\ queue = << >>
    /\ HasApiFrom("Agent2")
    /\ agent_status["Agent4"] = WaitingForDependency("Agent3")
    /\ LET m1 == AgentReadyMsg("Agent3")
           m2 == TaskCompletedMsg("Agent1", "agent1-1")
       IN  /\ Unrelated(sender_of(m1), sender_of(m2))
           /\ dispatch(Here, m1) # Here
           /\ dispatch(Here, m2) # Here
           /\ dispatch(dispatch(Here, m1), m2) # dispatch(Here, m1)
           /\ Commute(Here, m1, m2)


(***************************************************************************)
(* execution/runner.rs: ParallelExecutionRunner::execute.  A phase         *)
(* launches its workers (tokio::spawn, or an inline call), waits for all   *)
(* of them, and returns the first error in the order the results are       *)
(* inspected; a drain is a call of process_coordination under the write    *)
(* lock, awaited to its return.                                            *)
(***************************************************************************)
WorkerError(a) == [ok |-> FALSE, error |-> "worker returned an error", agent |-> a]

finished(a) == worker_pc[a] \in {"returned", "failed"}

runner_execute ==
    /\ rpc = "idle"
    /\ rpc' = "phase2"
    /\ coordinator_untouched
    /\ UNCHANGED <<queue, receiver_alive, worker_pc, own_status, agent_lock,
                   run_result, runner_log>>

\* a launch that does not wait for the phase before it
launch_early(here, a, next) ==
    /\ rpc \notin {"idle", "returned"}
    /\ worker_pc[a] = "idle"
    /\ worker_pc' = [worker_pc EXCEPT ![a] = "called"]
    /\ runner_log' = Append(runner_log, a)
    /\ coordinator_untouched
    /\ UNCHANGED <<queue, receiver_alive, rpc, own_status, agent_lock, run_result>>

\* a launch that waits until the coordinator says the agent can start
launch_when_ready(here, a, next) ==
    /\ rpc = here
    /\ can_agent_start(agent_status, api_registry, plan.tasks, a)
    /\ worker_pc' = [worker_pc EXCEPT ![a] = "called"]
    /\ rpc' = next
    /\ runner_log' = Append(runner_log, a)
    /\ coordinator_untouched
    /\ UNCHANGED <<queue, receiver_alive, own_status, agent_lock, run_result>>

launch(here, a, next) ==
    /\ rpc = here
    /\ worker_pc' = [worker_pc EXCEPT ![a] = "called"]
    /\ rpc' = next
    /\ runner_log' = Append(runner_log, a)
    /\ coordinator_untouched
    /\ UNCHANGED <<queue, receiver_alive, own_status, agent_lock, run_result>>

\* a join that returns as soon as one of the results is an error
join_first_error(here, order, next) ==
    /\ rpc = here
    /\ LET failed == {i \in 1..Len(order) : worker_pc[order[i]] = "failed"}
       IN  IF failed = {}
           THEN /\ \A i \in 1..Len(order) : finished(order[i])
                /\ rpc' = next
                /\ UNCHANGED run_result
           ELSE /\ rpc' = "returned"
                /\ run_result' =
                     WorkerError(order[CHOOSE i \in failed : \A j \in failed : i <= j])
    /\ coordinator_untouched
    /\ UNCHANGED <<queue, receiver_alive, worker_pc, own_status, agent_lock, runner_log>>

\* a join that goes on as soon as one of the workers has finished
join_any(here, order, next) ==
    /\ rpc = here
    /\ \E i \in 1..Len(order) : finished(order[i])
    /\ LET failed == {i \in 1..Len(order) : worker_pc[order[i]] = "failed"}
       IN  IF failed = {}
           THEN /\ rpc' = next
                /\ UNCHANGED run_result
           ELSE /\ rpc' = "returned"
                /\ run_result' =
                     WorkerError(order[CHOOSE i \in failed : \A j \in failed : i <= j])
    /\ coordinator_untouched
    /\ UNCHANGED <<queue, receiver_alive, worker_pc, own_status, agent_lock, runner_log>>

join(here, order, next) ==
    /\ rpc = here
    /\ \A i \in 1..Len(order) : finished(order[i])
    /\ LET failed == {i \in 1..Len(order) : worker_pc[order[i]] = "failed"}
       IN  IF failed = {}
           THEN /\ rpc' = next
                /\ UNCHANGED run_result
           ELSE /\ rpc' = "returned"
                /\ run_result' =
                     WorkerError(order[CHOOSE i \in failed : \A j \in failed : i <= j])
    /\ coordinator_untouched
    /\ UNCHANGED <<queue, receiver_alive, worker_pc, own_status, agent_lock, runner_log>>

drain_call(here, wait) ==
    /\ rpc = here
    /\ process_coordination_call
    /\ rpc' = wait
    /\ runner_log' = Append(runner_log, "drain")
    /\ UNCHANGED <<worker_pc, own_status, agent_lock, run_result>>

drain_return(wait, next) ==
    /\ rpc = wait
    /\ pc = "idle"
    /\ IF result = Ok
       THEN rpc' = next /\ UNCHANGED run_result
       ELSE rpc' = "returned" /\ run_result' = result
    /\ coordinator_untouched
    /\ UNCHANGED <<queue, receiver_alive, worker_pc, own_status, agent_lock, runner_log>>

phase2_spawn_agent1 == launch("phase2", "Agent1", "spawn2")
phase2_spawn_agent2 == launch("spawn2", "Agent2", "join2")
phase2_join == join("join2", <<"Agent1", "Agent2">>, "drain2")
phase2_drain == drain_call("drain2", "draining2")
phase2_drained == drain_return("draining2", "phase3")
phase3_call == launch("phase3", "Agent3", "join3")
phase3_returned == join("join3", <<"Agent3">>, "drain3")
phase3_drain == drain_call("drain3", "draining3")
phase3_drained == drain_return("draining3", "phase4")
phase4_call == launch("phase4", "Agent4", "join4")
phase4_returned == join("join4", <<"Agent4">>, "phase5")
phase5_spawn_agent5 == launch("phase5", "Agent5", "spawn6")
phase5_spawn_agent6 == launch("spawn6", "Agent6", "join5")
phase5_join == join("join5", <<"Agent5", "Agent6">>, "finalize")

finalize ==
    /\ rpc = "finalize"
    /\ ~agent_lock["Agent6"]
    /\ own_status' = [own_status EXCEPT !["Agent6"] = Completed]
    /\ rpc' = "returned"
    /\ run_result' = Ok
    /\ coordinator_untouched
    /\ UNCHANGED <<queue, receiver_alive, worker_pc, agent_lock, runner_log>>

NextRunner ==
    \/ runner_execute
    \/ phase2_spawn_agent1
    \/ phase2_spawn_agent2
    \/ \E a \in Workers : lock_agent(a)
    \/ \E a \in Workers : initialize(a)
    \/ \E a \in Workers : execute_signal_ready(a)
    \/ \E a \in Workers : execute_after_work(a)
    \/ phase2_join
    \/ phase2_drain
    \/ handle_agent_ready
    \/ handle_api_published
    \/ handle_task_completed
    \/ process_coordination_return
    \/ phase2_drained
    \/ phase3_call
    \/ phase3_returned
    \/ phase3_drain
    \/ phase3_drained
    \/ phase4_call
    \/ phase4_returned
    \/ phase5_spawn_agent5
    \/ phase5_spawn_agent6
    \/ phase5_join
    \/ finalize

SpecRunner == Init /\ [][NextRunner]_vars


(***************************************************************************)
(* The channel between workers and a coordinator, outside any runner:      *)
(* whoever holds the workers calls them in any order and at any time, the  *)
(* coordinator drains whenever it is asked to, and the owner of the        *)
(* CoordinationChannel may drop it, which drops the receiver and what is   *)
(* queued in it.                                                           *)
(***************************************************************************)
ChannelWorkers == {"Agent1", "Agent2", "Agent3"}

call_worker(a) ==
    /\ rpc = "idle"
    /\ worker_pc[a] = "idle"
    /\ worker_pc' = [worker_pc EXCEPT ![a] = "called"]
    /\ coordinator_untouched
    /\ UNCHANGED <<queue, receiver_alive, rpc, own_status, agent_lock,
                   run_result, runner_log>>

drop_receiver ==
    /\ receiver_alive
    /\ pc = "idle"
    /\ receiver_alive' = FALSE
    /\ queue' = << >>
    /\ coordinator_untouched
    /\ UNCHANGED runner_vars

NextChannel ==
    \/ \E a \in ChannelWorkers : call_worker(a)
    \/ \E a \in Workers : lock_agent(a)
    \/ \E a \in Workers : initialize(a)
    \/ \E a \in Workers : execute_signal_ready(a)
    \/ \E a \in Workers : execute_after_work(a)
    \/ drop_receiver
    \/ process_coordination
    \/ handle_agent_ready
    \/ handle_api_published
    \/ handle_task_completed
    \/ process_coordination_return

SpecChannel == Init /\ [][NextChannel]_vars

Position(m) ==
    IF \E i \in 1..Len(queue) : queue[i] = m
    THEN CHOOSE i \in 1..Len(queue) : queue[i] = m
    ELSE 0

\* C13: what one worker sends is processed in the order it was sent,
\* whatever the other workers and the coordinator do meanwhile: the second
\* message of Agent2 (ApiPublished) and of Agent3 (TaskCompleted) is never
\* processed before, nor queued ahead of, that worker's AgentReady.
C13_PerSenderOrder ==
    \A a \in {"Agent2", "Agent3"} :
        LET first == AgentReadyMsg(a)
            second == second_message(a)[1]
        IN  /\ second \in delivered => first \in delivered
            /\ Position(second) # 0 =>
                  \/ first \in delivered
                  \/ (Position(first) # 0 /\ Position(first) < Position(second))

\* both of Agent2's messages went through while Agent1 and Agent3 were
\* sending, and Agent3's pair is queued behind Agent1's AgentReady
C13_Witness ==
    /\ AgentReadyMsg("Agent2") \in delivered
    /\ second_message("Agent2")[1] \in delivered
    /\ queue = <<AgentReadyMsg("Agent3"), AgentReadyMsg("Agent1"),
                 second_message("Agent3")[1]>>


SendsReady(a) == worker_pc[a] = "initialized" /\ worker_pc'[a] # "initialized"

SendsSecond(a) ==
    /\ worker_pc[a] = "working"
    /\ worker_pc'[a] # "working"
    /\ second_message(a) # << >>

\* C14: a worker's send is always possible, whatever the length of the
\* queue; while the receiver exists it appends the message and execute
\* goes on, and once the receiver is dropped, and only then, it returns
\* the error, nothing is queued and the worker's execute fails, its
\* status left Running.
C14_SendFailsIffReceiverDropped ==
    /\ [](\A a \in Workers :
            /\ worker_pc[a] = "initialized" => ENABLED execute_signal_ready(a)
            /\ worker_pc[a] = "working" => ENABLED execute_after_work(a))
    /\ [][\A a \in Workers :
            /\ SendsReady(a) =>
                 IF receiver_alive
                 THEN /\ queue' = Append(queue, AgentReadyMsg(a))
                      /\ worker_pc'[a] = "working"
                 ELSE /\ queue' = queue
                      /\ worker_pc'[a] = "failed"
                      /\ own_status'[a] = Running
            /\ SendsSecond(a) =>
                 IF receiver_alive
                 THEN /\ queue' = queue \o second_message(a)
                      /\ worker_pc'[a] = "returned"
                 ELSE /\ queue' = queue
                      /\ worker_pc'[a] = "failed"
                      /\ own_status'[a] = Running]_vars
    /\ [](\A a \in Workers : worker_pc[a] = "failed" => ~receiver_alive)

\* Agent3 sent both of its messages and returned, then the channel was
\* dropped and Agent2's second send and Agent1's first send failed
C14_Witness ==
    /\ ~receiver_alive
    /\ worker_pc["Agent3"] = "returned"
    /\ own_status["Agent3"] = Completed
    /\ worker_pc["Agent2"] = "failed"
    /\ AgentReadyMsg("Agent2") \in delivered
    /\ worker_pc["Agent1"] = "failed"
    /\ AgentReadyMsg("Agent1") \notin delivered


(***************************************************************************)
(* The runner when the channel's receiver may go away during the run: the  *)
(* one way in which a worker's execute returns an error.                   *)
(***************************************************************************)
NextRunnerFaults ==
    \/ runner_execute
    \/ phase2_spawn_agent1
    \/ phase2_spawn_agent2
    \/ \E a \in Workers : lock_agent(a)
    \/ \E a \in Workers : initialize(a)
    \/ \E a \in Workers : execute_signal_ready(a)
    \/ \E a \in Workers : execute_after_work(a)
    \/ phase2_join
    \/ phase2_drain
    \/ handle_agent_ready
    \/ handle_api_published
    \/ handle_task_completed
    \/ process_coordination_return
    \/ phase2_drained
    \/ phase3_call
    \/ phase3_returned
    \/ phase3_drain
    \/ phase3_drained
    \/ phase4_call
    \/ phase4_returned
    \/ phase5_spawn_agent5
    \/ phase5_spawn_agent6
    \/ phase5_join
    \/ finalize
    \/ drop_receiver

SpecRunnerFaults == Init /\ [][NextRunnerFaults]_vars

Launched(a) == worker_pc[a] # "idle"

Active(a) == worker_pc[a] \in {"called", "locked", "initialized", "working"}

Phase(a) ==
    CASE a \in {"Agent1", "Agent2"} -> 2
      [] a = "Agent3" -> 3
      [] a = "Agent4" -> 4
      [] a \in {"Agent5", "Agent6"} -> 5

IsPrefix(s, t) == Len(s) <= Len(t) /\ \A i \in 1..Len(s) : s[i] = t[i]

C16_DrainAtEveryBoundary ==
    IsPrefix(runner_log, <<"Agent1", "Agent2", "drain", "Agent3", "drain",
                           "Agent4", "drain", "Agent5", "Agent6">>)

\* C17: once a worker has failed, the runner returns an error: the failed
\* worker is not called again, no worker of a later phase is ever launched,
\* execute does not return while a worker is still in its call, it returns
\* Ok only if no worker failed, and the step that returns leaves the
\* coordinator's state as the earlier drains made it.
C17_WorkerErrorEndsTheRun ==
    /\ [](\A a, b \in Workers :
            (worker_pc[a] = "failed" /\ Phase(a) < Phase(b)) => ~Launched(b))
    /\ [](rpc = "returned" =>
            /\ \A a \in Workers : ~Active(a)
            /\ (\E a \in Workers : worker_pc[a] = "failed") <=> IsErr(run_result)
            /\ run_result # Ok => own_status["Agent6"] # Completed)
    /\ [][\A a \in Workers :
            worker_pc[a] = "failed" => worker_pc'[a] = "failed"]_vars
    /\ [][(rpc # "returned" /\ rpc' = "returned") => UNCHANGED coordinator_state]_vars
    /\ [][rpc = "returned" => UNCHANGED <<coordinator_state, runner_vars>>]_vars

\* Agent5 failed in phase 5 and Agent6 was joined all the same; what the
\* two drains applied is still there
C17_Witness ==
    /\ rpc = "returned"
    /\ run_result = WorkerError("Agent5")
    /\ worker_pc["Agent6"] = "returned"
    /\ own_status["Agent6"] = Running
    /\ HasApiFrom("Agent2")
    /\ TaskIsCompleted("agent3-2")
    /\ agent_status["Agent3"] = Running

\* C18: execute leaves the continuous workers Running; Agent6 is Completed
\* only by finalize, which runs when every worker has returned and is the
\* runner's last step; Agent5 is never Completed.
C18_ContinuousWorkersStayRunning ==
    /\ [](own_status["Agent5"] # Completed)
    /\ [](\A a \in {"Agent5", "Agent6"} :
            (worker_pc[a] = "returned" /\ rpc # "returned") => own_status[a] = Running)
    /\ [](own_status["Agent6"] = Completed =>
            /\ rpc = "returned"
            /\ run_result = Ok
            /\ \A a \in Workers : worker_pc[a] = "returned")
    /\ [][(own_status["Agent6"] # Completed /\ own_status'["Agent6"] = Completed)
            => rpc = "finalize"]_vars

C18_Witness ==
    /\ rpc = "returned"
    /\ own_status["Agent6"] = Completed
    /\ own_status["Agent5"] = Running
    /\ worker_pc["Agent5"] = "returned"


(***************************************************************************)
(* The ownership manager under further register calls on top of the        *)
(* plan's records: a plan path re-registered, shared or not, for another   *)
(* owner, and a path the plan does not have.                               *)
(***************************************************************************)
OwnershipPaths == {"src-tauri/src/core", "src-tauri/src/memory", "README.md"}

OwnershipRecords ==
    {FileOwnership(p, o, sh) :
        p \in OwnershipPaths, o \in {"Orchestrator", "Agent1", "Agent2"},
        sh \in BOOLEAN}

register_ownership ==
    /\ \E fo \in OwnershipRecords : ownership' = ownership_register(ownership, fo)
    /\ UNCHANGED <<plan, api_registry, agent_status, queue, pc, result, delivered>>
    /\ UNCHANGED <<receiver_alive, runner_vars, standalone_vars>>

NextOwnership == register_ownership

SpecOwnership == Init /\ [][NextOwnership]_vars

\* C19: after any sequence of register calls can_modify(agent, path) is
\* true iff path has no record or the record's owner is agent, whatever
\* the shared flag says; one more register call leaves its record under
\* its path, in place of any earlier one, and every other path as it was.
C19_CanModifyIffUnregisteredOrOwner ==
    /\ \A agent \in AgentId, path \in OwnershipPaths \cup {"docs/none.md"} :
          can_modify(ownership, agent, path)
              <=> (path \notin DOMAIN ownership \/ ownership[path].owner = agent)
    /\ \A fo \in OwnershipRecords :
          LET after == ownership_register(ownership, fo)
          IN  /\ DOMAIN after = DOMAIN ownership \cup {fo.path}
              /\ after[fo.path] = fo
              /\ get_owner(after, fo.path) = fo.owner
              /\ \A p \in DOMAIN ownership \ {fo.path} : after[p] = ownership[p]
              /\ \A agent \in AgentId :
                    can_modify(after, agent, fo.path) <=> agent = fo.owner

\* the plan's exclusive record of Agent2 for src-tauri/src/memory was
\* replaced by a shared record of Agent1: Agent2 lost the path, no third
\* agent gained it, and README.md is still open to all
C19_Witness ==
    /\ ownership["src-tauri/src/memory"] =
          FileOwnership("src-tauri/src/memory", "Agent1", TRUE)
    /\ can_modify(ownership, "Agent1", "src-tauri/src/memory")
    /\ ~can_modify(ownership, "Agent2", "src-tauri/src/memory")
    /\ ~can_modify(ownership, "Agent3", "src-tauri/src/memory")
    /\ "README.md" \notin DOMAIN ownership
    /\ can_modify(ownership, "Agent3", "README.md")

(***************************************************************************)
(* The api registry under register calls: three names, each published by   *)
(* several agents and in two versions.                                     *)
(***************************************************************************)
RegistryNames == {"StorageApi", "EventApi", "AnalysisApi"}

RegistryRecords ==
    {ApiPublished(a, n, v) :
        a \in {"Agent1", "Agent2", "Agent3"},
        n \in RegistryNames,
        v \in {"1.0.0", "2.0.0"}}

register_api ==
    /\ \E api \in RegistryRecords : api_registry' = api_register(api_registry, api)
    /\ UNCHANGED <<plan, ownership, agent_status, queue, pc, result, delivered>>
    /\ UNCHANGED <<receiver_alive, runner_vars, standalone_vars>>

NextRegistry == register_api

SpecRegistry == Init /\ [][NextRegistry]_vars

Held == {api_registry[n] : n \in DOMAIN api_registry}

\* C20: after any sequence of register calls the registry holds at most
\* one record per name, filed under its own name, and get_agent_apis of a
\* worker is exactly the held records that worker published; one more
\* register call makes get_api of its name return its record, whoever
\* held the name before, and changes no other name.
C20_LastWriteWinsPerName ==
    /\ \A n \in DOMAIN api_registry :
          /\ api_registry[n].api_name = n
          /\ Cardinality({r \in Held : r.api_name = n}) = 1
          /\ get_api(api_registry, n) = {api_registry[n]}
    /\ \A w \in AgentId :
          get_agent_apis(api_registry, w) = {r \in Held : r.agent = w}
    /\ \A api \in RegistryRecords :
          LET after == api_register(api_registry, api)
          IN  /\ get_api(after, api.api_name) = {api}
              /\ \A n \in RegistryNames \ {api.api_name} :
                    get_api(after, n) = get_api(api_registry, n)
              /\ \A w \in AgentId :
                    get_agent_apis(after, w) =
                        {r \in Held : r.agent = w /\ r.api_name # api.api_name}
                        \cup (IF api.agent = w THEN {api} ELSE {})

\* StorageApi was re-published by Agent3 in version 2.0.0: Agent2 holds
\* nothing under it any more, Agent3 holds two names
C20_Witness ==
    /\ get_api(api_registry, "StorageApi") = {ApiPublished("Agent3", "StorageApi", "2.0.0")}
    /\ get_api(api_registry, "EventApi") = {ApiPublished("Agent3", "EventApi", "1.0.0")}
    /\ get_api(api_registry, "AnalysisApi") = {ApiPublished("Agent2", "AnalysisApi", "1.0.0")}
    /\ Cardinality(get_agent_apis(api_registry, "Agent3")) = 2
    /\ Cardinality(get_agent_apis(api_registry, "Agent2")) = 1
    /\ get_agent_apis(api_registry, "Agent1") = {}


(***************************************************************************)
(* The planner called at any times: the clock runs on between calls.       *)
(***************************************************************************)
tick ==
    /\ clock < MaxClock
    /\ clock' = clock + 1
    /\ UNCHANGED <<plans, store, migration_result, migration_status>>
    /\ UNCHANGED coordination_vars

plan_created ==
    /\ Len(plans) < MaxPlans
    /\ plans' = Append(plans, ExecutionPlan(clock))
    /\ UNCHANGED <<clock, store, migration_result, migration_status>>
    /\ UNCHANGED coordination_vars

NextPlanner ==
    \/ tick
    \/ plan_created

SpecPlanner == Init /\ [][NextPlanner]_vars

\* C21: any two plans the planner has returned are equal in roadmap,
\* tasks, interface stubs, file ownership and created_at.
C21_PlansAreEqual ==
    \A i, j \in 1..Len(plans) : plans[i] = plans[j]


(***************************************************************************)
(* The store's schema version under anything written to the key, and under *)
(* migration runs and status queries, each of which the store may fail.    *)
(***************************************************************************)
StoredValues ==
    {JsonString("v1"), JsonNull, JsonNotU64}
    \cup {JsonU64(high, low) : high \in 0..1, low \in 0..3}

put_version ==
    /\ \E value \in StoredValues : store' = value
    /\ UNCHANGED <<clock, plans, migration_result, migration_status>>
    /\ UNCHANGED coordination_vars

run_migrations_call ==
    /\ \E get_ok, put_ok \in BOOLEAN :
          LET run == run_migrations(store, get_ok, put_ok)
          IN  /\ store' = run.store
              /\ migration_result' = run.result
    /\ UNCHANGED <<clock, plans, migration_status>>
    /\ UNCHANGED coordination_vars

get_migration_status_call ==
    /\ \E get_ok \in BOOLEAN :
          migration_status' =
              IF get_ok THEN get_migration_status(store) ELSE StoreError
    /\ UNCHANGED <<clock, plans, store, migration_result>>
    /\ UNCHANGED coordination_vars

NextMigration ==
    \/ put_version
    \/ run_migrations_call
    \/ get_migration_status_call

SpecMigration == Init /\ [][NextMigration]_vars

AfterRun(value) == run_migrations(value, TRUE, TRUE)

\* C22 as stated: whatever the key held, a run that returns Ok leaves a
\* store whose status is up to date with current_version = target_version,
\* and a second run changes nothing.
C22_UpToDateAtTarget ==
    \A value \in StoredValues \cup {Absent, store} :
        \A get_ok, put_ok \in BOOLEAN :
            LET run == run_migrations(value, get_ok, put_ok)
                status == get_migration_status(run.store)
            IN  run.result = Ok =>
                    /\ status.is_up_to_date
                    /\ status.current_version = status.target_version
                    /\ AfterRun(run.store) = [store |-> run.store, result |-> Ok]

\* C22 amended: a run that returns Ok leaves a store whose status is up
\* to date, and a second run changes nothing; current_version is the
\* target version when the key held no version, a lower or the current
\* one, and is the stored version, left as it was, when that is higher.
C22_UpToDateAtTargetOrAbove ==
    \A value \in StoredValues \cup {Absent, store} :
        \A get_ok, put_ok \in BOOLEAN :
            LET run == run_migrations(value, get_ok, put_ok)
                status == get_migration_status(run.store)
                before == get_current_version(value)
            IN  run.result = Ok =>
                    /\ status.is_up_to_date
                    /\ status.target_version = CURRENT_SCHEMA_VERSION
                    /\ before <= CURRENT_SCHEMA_VERSION
                          => status.current_version = status.target_version
                    /\ before > CURRENT_SCHEMA_VERSION
                          => status.current_version = before /\ run.store = value
                    /\ before < CURRENT_SCHEMA_VERSION
                          => run.store = JsonU64(0, CURRENT_SCHEMA_VERSION)
                    /\ AfterRun(run.store) = [store |-> run.store, result |-> Ok]

\* a text under the key was migrated: the run returned Ok, the key holds
\* the current version and the status read after it says so
C22_Witness ==
    /\ migration_result = Ok
    /\ store = JsonU64(0, CURRENT_SCHEMA_VERSION)
    /\ migration_status = MigrationStatus(CURRENT_SCHEMA_VERSION)
    /\ migration_status.is_up_to_date


(***************************************************************************)
(* Frame and effect of the match arms of process_coordination.             *)
(***************************************************************************)
\* C23: dispatching TaskCompleted(w, id) sets the status of the task whose
\* id is id to Completed and leaves every other task as it was; it changes
\* a status only when w = Agent3, id = "agent3-2" and Agent4 is
\* WaitingForDependency(Agent3), and then Agent4 becomes Pending; the api
\* registry is unchanged.
C23_TaskCompletedEffect ==
    [][Dispatching("TaskCompleted") =>
         LET m == Head(queue)
         IN  /\ Len(plan'.tasks) = Len(plan.tasks)
             /\ \A i \in 1..Len(plan.tasks) :
                   plan'.tasks[i] =
                      IF plan.tasks[i].id = m.task_id
                      THEN [plan.tasks[i] EXCEPT !.status = "Completed"]
                      ELSE plan.tasks[i]
             /\ agent_status' =
                   IF m.agent = "Agent3" /\ m.task_id = "agent3-2"
                      /\ agent_status["Agent4"] = WaitingForDependency("Agent3")
                   THEN [agent_status EXCEPT !["Agent4"] = Pending]
                   ELSE agent_status
             /\ api_registry' = api_registry]_vars

\* Agent2's completion of agent3-2 was dispatched while Agent4 waited: the
\* one task is Completed and Agent4 still waits
C23_Witness ==
    /\ delivered = {AgentReadyMsg("Agent4"), TaskCompletedMsg("Agent2", "agent3-2")}
    /\ agent_status["Agent4"] = WaitingForDependency("Agent3")
    /\ \A i \in 1..Len(plan.tasks) :
          plan.tasks[i].status = "Completed" <=> plan.tasks[i].id = "agent3-2"
    /\ api_registry = NoApis

\* C24: dispatching an ApiPublished or a TaskCompleted never makes a status
\* Running; a status becomes Running only by dispatching the AgentReady of
\* that agent or a StatusUpdate of that agent.
C24_RunningOnlyByReadyOrUpdate ==
    [][\A a \in AgentId :
          (agent_status[a] # Running /\ agent_status'[a] = Running) =>
              \/ Dispatching("AgentReady") /\ Head(queue).agent = a
              \/ Dispatching("StatusUpdate") /\ Head(queue).agent = a]_vars

\* both gates were satisfied after the two agents had announced themselves
\* and been made to wait: both are Pending, neither is Running
C24_Witness ==
    /\ {AgentReadyMsg("Agent3"), AgentReadyMsg("Agent4"),
        ApiPublishedMsg(ApiPublished("Agent2", "StorageApi", "1.0.0")),
        TaskCompletedMsg("Agent3", "agent3-2")} \subseteq delivered
    /\ NoStatusUpdate("Agent3")
    /\ NoStatusUpdate("Agent4")
    /\ agent_status["Agent3"] = Pending
    /\ agent_status["Agent4"] = Pending

\* C25: dispatching StatusUpdate(w, s) sets status[w] to s whatever it was
\* and whatever w's gate says, and leaves every other status, the api
\* registry, the tasks and the ownership registry as they were.
C25_StatusUpdateEffect ==
    [][Dispatching("StatusUpdate") =>
         /\ agent_status' =
               [agent_status EXCEPT ![Head(queue).agent] = Head(queue).status]
         /\ UNCHANGED <<api_registry, plan, ownership>>]_vars

\* Agent4 was set Running by a status update alone, its gate still closed
C25_Witness ==
    /\ delivered = {[type |-> "StatusUpdate", agent |-> "Agent4"]}
    /\ agent_status["Agent4"] = Running
    /\ ~TaskIsCompleted("agent3-2")
    /\ ~can_agent_start(agent_status, api_registry, plan.tasks, "Agent4")

\* C26: dispatching a CoordinationRequest, whatever its outcome, or a
\* CoordinationResponse leaves the statuses, the api registry, the tasks
\* and the ownership registry as they were.
C26_RequestsAndResponsesChangeNothing ==
    [][(Dispatching("CoordinationRequest") \/ Dispatching("CoordinationResponse"))
          => UNCHANGED <<agent_status, api_registry, plan, ownership>>]_vars

\* a pass took an approved response and then ended on a denied request,
\* and the coordinator is as it was constructed
C26_Witness ==
    /\ pc = "idle"
    /\ IsErr(result)
    /\ agent_status = new_agent_status
    /\ api_registry = NoApis
    /\ plan = create_execution_plan
    /\ queue # << >>
    /\ Head(queue).type = "CoordinationResponse"

\* C27: a send changes the channel and nothing of the coordinator, and the
\* statuses, the api registry and the tasks change only in a step of a
\* process_coordination call that takes a message from the channel.
C27_DrainsOnDemandOnly ==
    [][/\ Len(queue') > Len(queue)
          => UNCHANGED <<agent_status, api_registry, plan, ownership, pc, result>>
       /\ <<agent_status, api_registry, plan>>' # <<agent_status, api_registry, plan>>
          => pc = "draining" /\ pc' = "draining" /\ queue' = Tail(queue)]_vars

\* a pass has returned, a publication of Agent2 sent since is queued and
\* Agent3 still waits for it
C27_Witness ==
    /\ pc = "idle"
    /\ result = Ok
    /\ queue = <<ApiPublishedMsg(ApiPublished("Agent2", "StorageApi", "1.0.0"))>>
    /\ agent_status["Agent3"] = WaitingForDependency("Agent2")
    /\ AgentReadyMsg("Agent3") \in delivered
    /\ ~HasApiFrom("Agent2")


(***************************************************************************)
(* The runner while the holder of the CoordinationHandle that              *)
(* ParallelExecutionRunner::new returned sends too: status updates that    *)
(* put Agent3 and Agent4 back to waiting, and a StorageApi published by    *)
(* Agent1, which replaces the record of Agent2.                            *)
(***************************************************************************)
MaxOutside == 4

OutsideMessages ==
    {StatusUpdateMsg("Agent3", WaitingForDependency("Agent2")),
     StatusUpdateMsg("Agent4", WaitingForDependency("Agent3")),
     ApiPublishedMsg(ApiPublished("Agent1", "StorageApi", "1.0.0"))}

send_outside ==
    \E m \in OutsideMessages :
        /\ rpc \notin {"idle", "returned"}
        /\ send_within(m, MaxOutside)

NextRunnerOutside ==
    \/ runner_execute
    \/ phase2_spawn_agent1
    \/ phase2_spawn_agent2
    \/ \E a \in Workers : lock_agent(a)
    \/ \E a \in Workers : initialize(a)
    \/ \E a \in Workers : execute_signal_ready(a)
    \/ \E a \in Workers : execute_after_work(a)
    \/ send_outside
    \/ phase2_join
    \/ phase2_drain
    \/ handle_agent_ready
    \/ handle_api_published
    \/ handle_task_completed
    \/ status_update_arm
    \/ process_coordination_return
    \/ phase2_drained
    \/ phase3_call
    \/ phase3_returned
    \/ phase3_drain
    \/ phase3_drained
    \/ phase4_call
    \/ phase4_returned
    \/ phase5_spawn_agent5
    \/ phase5_spawn_agent6
    \/ phase5_join
    \/ finalize

SpecRunnerOutside == Init /\ [][NextRunnerOutside]_vars

CanStart(a) == can_agent_start(agent_status, api_registry, plan.tasks, a)

IsWaiting(a) == agent_status[a] = WaitingForDependency(get_blocking_dependency(a))

\* C29: the runner launches Agent3 and Agent4 by phase order alone: once
\* the phase before is joined and drained the launch can be taken whatever
\* the coordinator's status for the agent and whatever can_agent_start
\* says of it, and it is taken in states where the status is
\* WaitingForDependency and in states where can_agent_start is false.
C29_LaunchByPhaseOrderAlone ==
    /\ [](rpc = "phase3" => ENABLED phase3_call)
    /\ [](rpc = "phase4" => ENABLED phase4_call)
    /\ [][phase3_call \/ phase4_call => UNCHANGED agent_status]_vars

\* Agent3 has just been launched while the coordinator has it waiting for
\* Agent2 and can_agent_start is false for it
C29_Witness ==
    /\ rpc = "join3"
    /\ worker_pc["Agent3"] = "called"
    /\ IsWaiting("Agent3")
    /\ ~CanStart("Agent3")


(***************************************************************************)
(* The runner's launches against the roadmap of the plan it was given.     *)
(***************************************************************************)
RoadmapOf(a) ==
    create_roadmap[CHOOSE i \in 1..Len(create_roadmap) :
                      \E j \in 1..Len(create_roadmap[i].agents) :
                          create_roadmap[i].agents[j] = a]

\* phase 1 is done when execute begins (runner.rs 47-48); a later phase is
\* finished when each of its agents has returned from execute
PhaseFinished(phase) ==
    \A i \in 1..Len(create_roadmap) :
        create_roadmap[i].phase = phase =>
            IF phase = "phase-1-orchestration"
            THEN rpc # "idle"
            ELSE \A j \in 1..Len(create_roadmap[i].agents) :
                    worker_pc[create_roadmap[i].agents[j]] = "returned"

DependenciesFinished(a) ==
    \A k \in 1..Len(RoadmapOf(a).dependencies) :
        PhaseFinished(RoadmapOf(a).dependencies[k])

\* C30: Agent5 and Agent6 start early: the runner launches them as soon as
\* the phase their roadmap phase depends on, the orchestration phase, is
\* done, without waiting for Agents 1 to 4 to return: once execute has
\* begun the launch of Agent5 can be taken, and once Agent5 is launched
\* that of Agent6.
C30_ContinuousAgentsStartEarly ==
    /\ (/\ rpc \notin {"idle", "returned"}
        /\ DependenciesFinished("Agent5")
        /\ ~Launched("Agent5")) => ENABLED phase5_spawn_agent5
    /\ (/\ rpc \notin {"idle", "returned"}
        /\ DependenciesFinished("Agent6")
        /\ Launched("Agent5")
        /\ ~Launched("Agent6")) => ENABLED phase5_spawn_agent6


(***************************************************************************)
(* What the workers send in a run.                                         *)
(***************************************************************************)
\* how many times m is queued or has been dispatched (delivered keeps a
\* message once, so a second copy shows while it is queued)
Copies(m) ==
    Len(SelectSeq(queue, LAMBDA q : q = m)) + (IF m \in delivered THEN 1 ELSE 0)

SentBy(a) ==
    {m \in delivered : sender_of(m) = a}
        \cup {queue[i] : i \in {j \in 1..Len(queue) : sender_of(queue[j]) = a}}

\* C28: in a run each worker sends exactly one AgentReady, with its own
\* id, as the first thing execute does, and before the ApiPublished or
\* TaskCompleted it sends; the only ApiPublished is Agent2's, published by
\* Agent2, the only TaskCompleted is (Agent3, "agent3-2"), sent by Agent3
\* once, and nothing else is ever sent: no StatusUpdate, no
\* CoordinationRequest.
C28_WhatWorkersSend ==
    /\ \A a \in Workers :
          /\ Copies(AgentReadyMsg(a)) =
                IF worker_pc[a] \in {"working", "returned"} THEN 1 ELSE 0
          /\ \A m \in SentBy(a) :
                \/ m = AgentReadyMsg(a)
                \/ /\ worker_pc[a] = "returned"
                   /\ Copies(m) = 1
                   /\ \/ a = "Agent2" /\ m.type = "ApiPublished" /\ m.api.agent = "Agent2"
                      \/ a = "Agent3" /\ m = TaskCompletedMsg("Agent3", "agent3-2")
          /\ (a \in {"Agent2", "Agent3"} /\ worker_pc[a] = "returned")
                => SentBy(a) # {AgentReadyMsg(a)}
          /\ \A i \in 1..Len(queue) :
                (sender_of(queue[i]) = a /\ queue[i] # AgentReadyMsg(a))
                    => \/ AgentReadyMsg(a) \in delivered
                       \/ Position(AgentReadyMsg(a)) \in 1..(i - 1)
          /\ \A m \in delivered :
                sender_of(m) = a => AgentReadyMsg(a) \in delivered
    /\ \A m \in delivered : sender_of(m) \in Workers
    /\ \A i \in 1..Len(queue) :
          /\ queue[i].type \in {"AgentReady", "ApiPublished", "TaskCompleted"}
          /\ sender_of(queue[i]) \in Workers

\* the run is over: Agent2's and Agent3's pairs have been dispatched, and
\* the AgentReady of Agents 4, 5 and 6 is all that was sent besides
C28_Witness ==
    /\ rpc = "returned"
    /\ run_result = Ok
    /\ \A a \in Workers : worker_pc[a] = "returned"
    /\ SentBy("Agent2") = {AgentReadyMsg("Agent2"),
                           ApiPublishedMsg(ApiPublished("Agent2", "StorageApi", "1.0.0"))}
    /\ SentBy("Agent3") = {AgentReadyMsg("Agent3"), TaskCompletedMsg("Agent3", "agent3-2")}
    /\ \A a \in Workers \ {"Agent2", "Agent3"} : SentBy(a) = {AgentReadyMsg(a)}


(***************************************************************************)
(* What completes a task, and what the gates of Agent3 and Agent4 can      *)
(* lose.                                                                   *)
(***************************************************************************)
BecomesCompleted(i) ==
    plan.tasks[i].status # "Completed" /\ plan'.tasks[i].status = "Completed"

\* C31 (as stated): a task becomes Completed only by dispatching a
\* TaskCompleted with its id whose agent is the owner of the task.
C31_CompletedByOwnerOnly ==
    [][\A i \in 1..Len(plan.tasks) :
          BecomesCompleted(i) =>
              /\ Dispatching("TaskCompleted")
              /\ Head(queue).task_id = plan.tasks[i].id
              /\ Head(queue).agent = plan.tasks[i].owner]_vars

\* C31 (amended): a task becomes Completed only by dispatching a
\* TaskCompleted with its id, and every such dispatch leaves it Completed,
\* whichever agent the message names.
C31_CompletedByIdOnly ==
    [][/\ \A i \in 1..Len(plan.tasks) :
             BecomesCompleted(i) =>
                 /\ Dispatching("TaskCompleted")
                 /\ Head(queue).task_id = plan.tasks[i].id
       /\ Dispatching("TaskCompleted") =>
             \A i \in 1..Len(plan.tasks) :
                 plan.tasks[i].id = Head(queue).task_id
                     => plan'.tasks[i].status = "Completed"]_vars

\* agent3-2 was completed by Agent2's message alone, and Agent4, announced
\* after it, runs
C31_Witness ==
    /\ TaskIsCompleted("agent3-2")
    /\ TaskCompletedMsg("Agent2", "agent3-2") \in delivered
    /\ TaskCompletedMsg("Agent3", "agent3-2") \notin delivered
    /\ NoStatusUpdate("Agent4")
    /\ agent_status["Agent4"] = Running


NoStatusUpdates == \A a \in AgentId : NoStatusUpdate(a)

\* a completion of agent3-2 that names an agent other than Agent3 has been
\* dispatched
CompletedByAnother ==
    \E m \in delivered :
        m.type = "TaskCompleted" /\ m.task_id = "agent3-2" /\ m.agent # "Agent3"

\* C32 (as stated): while no StatusUpdate has been dispatched, Agent3 waits
\* for Agent2 only while the registry holds no record of Agent2, and Agent4
\* waits for Agent3 only while task agent3-2 is not Completed.
C32_NoWaitingOnSatisfiedGate ==
    NoStatusUpdates =>
        /\ agent_status["Agent3"] = WaitingForDependency("Agent2")
              => ~HasApiFrom("Agent2")
        /\ agent_status["Agent4"] = WaitingForDependency("Agent3")
              => ~TaskIsCompleted("agent3-2")

\* C32 (amended): while no StatusUpdate for it has been dispatched, Agent3
\* waits for Agent2 only while the registry holds no record of Agent2; and
\* while no StatusUpdate for it has been dispatched, Agent4 waits for
\* Agent3 only while task agent3-2 is not Completed or was completed by a
\* message that names another agent than Agent3.
C32_NoWaitingUnlessCompletedByAnother ==
    /\ (NoStatusUpdate("Agent3")
        /\ agent_status["Agent3"] = WaitingForDependency("Agent2"))
            => ~HasApiFrom("Agent2")
    /\ (NoStatusUpdate("Agent4") /\ ~CompletedByAnother
        /\ agent_status["Agent4"] = WaitingForDependency("Agent3"))
            => ~TaskIsCompleted("agent3-2")

\* Agent2's record was replaced by Agent3's before Agent3 announced itself:
\* Agent3 waits again, on a gate that is closed again, and Agent4, which
\* announced itself too, waits for a task not yet completed
C32_Witness ==
    /\ NoStatusUpdates
    /\ ~CompletedByAnother
    /\ {ApiPublishedMsg(ApiPublished("Agent2", "StorageApi", "1.0.0")),
        ApiPublishedMsg(ApiPublished("Agent3", "StorageApi", "1.0.0")),
        AgentReadyMsg("Agent3"), AgentReadyMsg("Agent4")} \subseteq delivered
    /\ agent_status["Agent3"] = WaitingForDependency("Agent2")
    /\ agent_status["Agent4"] = WaitingForDependency("Agent3")
    /\ ~HasApiFrom("Agent2")
    /\ ~TaskIsCompleted("agent3-2")


\* C33 (as stated): once the registry holds a record published by Agent2
\* it holds one ever after.
C33_Agent3GateIsMonotone ==
    [][HasApiFrom("Agent2") => HasApiFrom("Agent2")']_vars

\* C33 (amended): can_agent_start(Agent3) is true exactly while the
\* registry holds a record published by Agent2, and the registry goes from
\* holding one to holding none only by one step: Agent2 holds a single
\* record and another agent registers under that record's name; no other
\* name is touched and no name is ever removed.
C33_GateLostOnlyByOverwrite ==
    /\ [](CanStart("Agent3") <=> HasApiFrom("Agent2"))
    /\ [][(HasApiFrom("Agent2") /\ ~HasApiFrom("Agent2")') =>
            \E n \in DOMAIN api_registry :
                /\ get_agent_apis(api_registry, "Agent2") = {api_registry[n]}
                /\ DOMAIN api_registry' = DOMAIN api_registry
                /\ api_registry'[n].agent # "Agent2"
                /\ api_registry'[n].api_name = n
                /\ \A k \in DOMAIN api_registry \ {n} :
                      api_registry'[k] = api_registry[k]]_vars

\* Agent2's one record has outlived registrations by Agent1 and Agent3
\* under the two other names
C33_Witness ==
    /\ DOMAIN api_registry = RegistryNames
    /\ get_agent_apis(api_registry, "Agent2") =
          {ApiPublished("Agent2", "StorageApi", "1.0.0")}
    /\ api_registry["EventApi"].agent = "Agent1"
    /\ api_registry["AnalysisApi"].agent = "Agent3"
    /\ CanStart("Agent3")


\* C34: every task is NotStarted or Completed at all times, a Completed
\* task never changes again, and can_agent_start(Agent4) is true exactly
\* when task agent3-2 is Completed, so that once true it stays true.
C34_TaskStatusIsMonotone ==
    /\ [](\A i \in 1..Len(plan.tasks) :
            plan.tasks[i].status \in {TaskNotStarted, TaskCompletedStatus})
    /\ [](CanStart("Agent4") <=> TaskIsCompleted("agent3-2"))
    /\ [][/\ Len(plan'.tasks) = Len(plan.tasks)
          /\ \A i \in 1..Len(plan.tasks) :
                plan.tasks[i].status = TaskCompletedStatus
                    => plan'.tasks[i] = plan.tasks[i]
          /\ CanStart("Agent4") => CanStart("Agent4")']_vars

\* agent3-2 was completed by Agent3 and then by Agent2; a third
\* completion is about to be dispatched on the task, still Completed
C34_Witness ==
    /\ {TaskCompletedMsg("Agent3", "agent3-2"),
        TaskCompletedMsg("Agent2", "agent3-2")} \subseteq delivered
    /\ TaskIsCompleted("agent3-2")
    /\ CanStart("Agent4")
    /\ pc = "draining"
    /\ queue # << >>
    /\ Head(queue).type = "TaskCompleted"


(***************************************************************************)
(* The coordinator's state at the points of a run.                         *)
(***************************************************************************)
\* C35: whatever the interleaving of Agent1 and Agent2 in phase 2, when
\* the first drain has returned, and until the second one begins, the
\* coordinator has Agent1 and Agent2 Running, Agent3 Pending, Agent4
\* WaitingForDependency(Agent3), the rest as constructed, the registry
\* holds StorageApi published by Agent2 and nothing else, no task is
\* Completed and the channel is empty or holds Agent3's messages only.
C35_StateAfterFirstDrain ==
    rpc \in {"phase3", "join3", "drain3"} =>
        /\ agent_status =
              [new_agent_status EXCEPT !["Agent1"] = Running,
                                       !["Agent2"] = Running,
                                       !["Agent3"] = Pending]
        /\ agent_status["Agent4"] = WaitingForDependency("Agent3")
        /\ api_registry =
              api_register(NoApis, ApiPublished("Agent2", "StorageApi", "1.0.0"))
        /\ plan = create_execution_plan
        /\ delivered = {AgentReadyMsg("Agent1"), AgentReadyMsg("Agent2"),
                        ApiPublishedMsg(ApiPublished("Agent2", "StorageApi", "1.0.0"))}
        /\ \A i \in 1..Len(queue) : sender_of(queue[i]) = "Agent3"

\* the first drain has returned and Agent3 is not yet launched
C35_Witness ==
    /\ rpc = "phase3"
    /\ pc = "idle"
    /\ result = Ok
    /\ queue = << >>
    /\ worker_pc["Agent1"] = "returned"
    /\ worker_pc["Agent2"] = "returned"
    /\ agent_status["Agent3"] = Pending
    /\ HasApiFrom("Agent2")


\* C36: in a run with no sender other than the six workers no coordinator
\* status is ever Completed or Failed, and when execute has returned Ok the
\* coordinator has Agents 1, 2, 3 Running and Agents 4, 5, 6 Pending, task
\* agent3-2 is Completed, the AgentReady of Agents 4, 5 and 6 are queued,
\* not dispatched, and nothing else is queued, while the own status of
\* Agents 1, 2, 3, 4 and 6 is Completed.
C36_EndOfRun ==
    /\ \A a \in AgentId : agent_status[a].tag \notin {"Completed", "Failed"}
    /\ (rpc = "returned" /\ run_result = Ok) =>
          /\ \A a \in {"Agent1", "Agent2", "Agent3"} : agent_status[a] = Running
          /\ \A a \in {"Agent4", "Agent5", "Agent6"} : agent_status[a] = Pending
          /\ TaskIsCompleted("agent3-2")
          /\ Len(queue) = 3
          /\ queue[1] = AgentReadyMsg("Agent4")
          /\ {queue[2], queue[3]} = {AgentReadyMsg("Agent5"), AgentReadyMsg("Agent6")}
          /\ \A a \in {"Agent4", "Agent5", "Agent6"} :
                AgentReadyMsg(a) \notin delivered
          /\ \A a \in Workers \ {"Agent5"} : own_status[a] = Completed

\* execute has returned Ok with Agent6's AgentReady queued before Agent5's
C36_Witness ==
    /\ rpc = "returned"
    /\ run_result = Ok
    /\ queue = <<AgentReadyMsg("Agent4"), AgentReadyMsg("Agent6"),
                 AgentReadyMsg("Agent5")>>
    /\ agent_status["Agent4"] = Pending
    /\ own_status["Agent4"] = Completed


(***************************************************************************)
(* The run under a scheduler that does not stop while a step of the        *)
(* runner, of a spawned task or of the coordinator's pass can be taken.    *)
(***************************************************************************)
SpecRunnerFair == Init /\ [][NextRunner]_vars /\ WF_vars(NextRunner)

\* C37: with no failing worker and a fair scheduler execute returns Ok;
\* on the way every worker called finds its agent's mutex free, every
\* drain finds the coordinator free, no state before the return is without
\* a next step, and Agent6's mutex is free when finalize is called.
C37_RunTerminatesWithOk ==
    /\ <>(rpc = "returned" /\ run_result = Ok)
    /\ [](\A a \in Workers : worker_pc[a] = "called" => ENABLED lock_agent(a))
    /\ [](rpc = "drain2" => ENABLED phase2_drain)
    /\ [](rpc = "drain3" => ENABLED phase3_drain)
    /\ [](rpc = "finalize" => ~agent_lock["Agent6"] /\ ENABLED finalize)
    /\ [](rpc # "returned" => ENABLED NextRunner)

\* finalize is about to be called: the phase-5 join is over and no mutex
\* is held
C37_Witness ==
    /\ rpc = "finalize"
    /\ worker_pc["Agent5"] = "returned"
    /\ worker_pc["Agent6"] = "returned"
    /\ \A a \in Workers : ~agent_lock[a]
    /\ pc = "idle"


\* C38: while no StatusUpdate has been dispatched, a status
\* WaitingForDependency(d) is held by Agent3 with d = Agent2 or by Agent4
\* with d = Agent3, and by no other agent.
C38_WaitingOnStaticDependencyOnly ==
    NoStatusUpdates =>
        \A w \in AgentId :
            agent_status[w].tag = "WaitingForDependency" =>
                \/ w = "Agent3" /\ agent_status[w] = WaitingForDependency("Agent2")
                \/ w = "Agent4" /\ agent_status[w] = WaitingForDependency("Agent3")

\* all seven agents have announced themselves and nothing else was
\* dispatched: Agent3 and Agent4 wait, the others run
C38_Witness ==
    /\ delivered = {AgentReadyMsg(a) : a \in AgentId}
    /\ agent_status["Agent3"] = WaitingForDependency("Agent2")
    /\ agent_status["Agent4"] = WaitingForDependency("Agent3")
    /\ \A a \in AgentId \ {"Agent3", "Agent4"} : agent_status[a] = Running


(***************************************************************************)
(* What of the coordinator is fixed at construction.                       *)
(***************************************************************************)
ConstructedOwnership ==
    register_all(NoOwnership, create_execution_plan.file_ownership, 1)

AskedPaths ==
    {create_file_ownership[i].path : i \in 1..Len(create_file_ownership)}
        \cup {"src-tauri/src/memory", "src-tauri/src/core", "README.md"}

TaskIds(tasks) == [i \in 1..Len(tasks) |-> tasks[i].id]

\* C39: at all times get_owner and can_modify answer as they did right
\* after ExecutionCoordinator::new, for every agent and path, and the
\* plan's roadmap, interfaces, file_ownership, created_at and the ids (and
\* owners) of its tasks are those of the plan it was constructed with.
C39_FixedAtConstruction ==
    /\ \A path \in AskedPaths :
          /\ get_owner(ownership, path) = get_owner(ConstructedOwnership, path)
          /\ \A agent \in AgentId :
                can_modify(ownership, agent, path)
                    = can_modify(ConstructedOwnership, agent, path)
    /\ ownership = ConstructedOwnership
    /\ plan.roadmap = create_roadmap
    /\ plan.interfaces = create_interface_stubs
    /\ plan.file_ownership = create_file_ownership
    /\ plan.created_at = create_execution_plan.created_at
    /\ TaskIds(plan.tasks) = TaskIds(create_task_breakdown)
    /\ \A i \in 1..Len(plan.tasks) :
          plan.tasks[i].owner = create_task_breakdown[i].owner

\* requests were accepted and one denied, a task was completed: the task's
\* status differs from the constructed plan's and nothing else does
C39_Witness ==
    /\ IsErr(result)
    /\ TaskIsCompleted("agent3-1")
    /\ plan # create_execution_plan
    /\ [plan EXCEPT !.tasks = create_task_breakdown] = create_execution_plan
    /\ ownership = ConstructedOwnership


====
